---------------------------- MODULE Spec2Model ----------------------------
(***************************************************************************)
(* Model of the sao-node shard lifecycle engine.                           *)
(*                                                                         *)
(*  - provider side (StoreSvc): HandleShardAssign, ShardFix, restart       *)
(*    replay (processIncompleteShards), the worker loop Start/process,     *)
(*    the durable shard records and the shard index (utils.SaveShard,      *)
(*    utils.GetShard, utils.UpdateShardIndex);                             *)
(*  - the migration engine (StoreSvc.Migrate, processMigrateLoop,          *)
(*    processMigrate) and its durable MigrateInfo records;                 *)
(*  - the stream handlers HandleShardMigrate and HandleShardLoad;         *)
(*  - gateway side (GatewaySvc.CommitModel and renewModel, with their     *)
(*    OrderComplete subscriptions) and the staging area, and               *)
(*    GatewaySvc.FetchContent with the HTTP file-server directory;         *)
(*  - the client commands create, update and renew, and snode init with    *)
(*    the node repo;                                                       *)
(*  - StoreSvc.Stop and the end of the worker loop.                        *)
(*                                                                         *)
(* A shard key (OrderId, Cid) is a number of Keys.  The task channel is    *)
(* unbuffered (make(chan types.ShardInfo)): a goroutine that sends on it   *)
(* is blocked, holding its copy of the record, until the worker receives.  *)
(***************************************************************************)
EXTENDS Integers, Sequences, FiniteSets, TLC

\* ----------------------------------------------------------------- bounds
NumShards == 1
NumProcs == 1
NumAssigners == 2
MaxHeight == 2
MaxCalls == 3
MaxRestarts == 2
MaxTx == 1
NumDataIds == 2
NumCallers == 2
NumPaths == 1
MaxOrderId == 2
MaxDays == 1
MaxExtra == 1
MaxWords == 3
NumRepos == 2
NumProviders == 2
ContentLimit == 1

\* ------------------------------------------------------ program constants
MAX_RETRIES == 3

\* the longest --extend-info createCmd and updateCmd take
ExtendInfoLimit == 1024

ShardStateValidated == 0
ShardStateStored == 1
ShardStateTxSent == 2
ShardStateComplete == 3
ShardStateTerminate == 4

MigrateStateTxSent == 0
MigrateStateComplete == 1

\* the Code of an error response
ErrorCodeInternalErr == 1
ErrorCodeInvalidTx == 2
ErrorCodeInvalidShardAssignee == 3
ErrorCodeInvalidProvider == 4
ErrorCodeInvalidShardCid == 5

Keys == 1..NumShards
Procs == 1..NumProcs
\* the goroutines of shard-assign requests that are served at once
Assigners == 1..NumAssigners
Heights == 1..MaxHeight
DataIds == 1..NumDataIds
Callers == 1..NumCallers
\* a staging path <staging>/<owner>/<cid>
Paths == 1..NumPaths

\* node addresses: this provider, the new provider of a migrated shard,
\* and another node
Self == "self"
Dest == "dest"
Providers == {Self, "other"}

\* ordertypes.ShardWaiting, ordertypes.ShardCompleted
ShardWaiting == "waiting"
ShardCompleted == "completed"
ShardStatuses == {ShardWaiting, ShardCompleted}

\* order.Operation as HandleShardAssign formats it: "1" create, "3" renew
Operations == {"1", "3"}
\* order.Expire: 0 (no expiry) or a height
Expires == {0, 1}

\* the zero value types.ShardInfo{}: what GetShard returns for a missing key
EmptyShard ==
  [k |-> 0, State |-> ShardStateValidated, Tries |-> 0, LastErr |-> "",
   CompleteHash |-> 0, CompleteHeight |-> 0,
   ExpireHeight |-> 0, OrderOperation |-> ""]

VARIABLES
  env,         \* "any": chain, gateway and node may fail; "good": every
               \* request succeeds; "badcid": as good, but every ShardLoad
               \* answers content of another cid
  alive,       \* the node process is running
  restarts,    \* number of restarts so far
  calls,       \* number of HandleShardAssign and ShardFix requests so far
  height,      \* current chain height (GetLastHeight)
  orders,      \* chain orders: per shard key, Operation and Expire
  ds,          \* durable datastore: shard key -> record, EmptyShard if absent
  shardIndex,  \* durable shard index: sequence of keys (ShardIndex.All)
  store,       \* shard store: key -> "none" | "good" | "bad" content
  handlers,    \* HandleShardAssign / ShardFix goroutines
  replayPc,    \* processIncompleteShards: "start" | "send"
  pendings,    \* processIncompleteShards: copies still to send
  wpc,         \* worker position: "idle" | "load" | "complete" | "notify"
  wtask,       \* the worker's copy of the task in process
  completeCount, \* MsgComplete transactions accepted by the chain, per key
  lastNotify,  \* last ShardComplete request sent to the gateway, per key
  mismatches,  \* under "badcid": ShardLoad answers of another cid, per
               \* key, counted up to MAX_RETRIES
  migrateDs,   \* durable datastore: data id -> MigrateInfo, NoMigrate if
               \* absent
  migrateIndex, \* durable migrate index: sequence of keys
  migrator,    \* the goroutine of a Migrate call
  mpc,         \* migrate worker position: "idle" | "request" | "get" | "put"
  mreq,        \* the MigrateRequest the worker processes
  mresp,       \* the answers the worker got for it
  minfo,       \* the MigrateInfo the worker read
  staging,     \* gateway staging area: path -> the call that wrote the
               \* file there, NoFile if there is none
  commits,     \* the goroutines of CommitModel calls
  mhandlers,   \* HandleShardMigrate goroutines
  lhandlers,   \* HandleShardLoad goroutines
  assignResp,  \* per HandleShardAssign goroutine: its last request, what
               \* the chain answered, and the Code of its checks
  cli,         \* the last run of a client command: what it was given,
               \* the requests it made, and what it reported
  repos,       \* the node repos on disk, per repo path
  httpFiles,   \* the HTTP file-server directory: data id -> content
  fetched,     \* the last call of FetchContent and its result
  closed,      \* close(ss.taskChan) has happened in this process
  ctxDone      \* the context of the worker loop is cancelled

shardVars ==
  <<env, alive, restarts, calls, height, orders, ds, shardIndex, store,
    handlers, replayPc, pendings, wpc, wtask, completeCount, lastNotify,
    mismatches>>
migVars == <<migrateDs, migrateIndex, migrator, mpc, mreq, mresp, minfo>>
commitVars == <<staging, commits>>
peerVars == <<mhandlers, lhandlers, assignResp>>
toolVars == <<cli, repos, httpFiles, fetched>>
stopVars == <<closed, ctxDone>>
vars == <<shardVars, migVars, commitVars, peerVars, toolVars, stopVars>>

\* what the shard engine of the provider leaves alone
outside == <<env, migVars, commitVars, peerVars, toolVars, stopVars>>
\* what the migration engine leaves alone, and what CommitModel does
exceptMig == <<shardVars, commitVars, peerVars, toolVars, stopVars>>
exceptCommit == <<shardVars, migVars, peerVars, toolVars, stopVars>>

durable == <<ds, shardIndex, store>>
ghosts == <<completeCount, lastNotify, mismatches>>
nodeVars == <<outside, alive, restarts>>
chainVars == <<height, orders>>

IdleHandler ==
  [pc |-> "idle", src |-> "", task |-> EmptyShard, exists |-> FALSE,
   idx |-> <<>>]

NoNotify == [TxHash |-> 0, Height |-> 0]

Min(a, b) == IF a < b THEN a ELSE b

\* ------------------------------------------------------------ datastore

\* utils.GetShard: the record, or the zero value when the key is absent
GetShard(d, k) == d[k]

Has(d, k) == d[k] # EmptyShard

\* utils.UpdateShardIndex: read the index, append the key, write it back
UpdateShardIndex(index, k) == Append(index, k)

\* utils.SaveShard run without interruption: Put, then index append when
\* the key did not exist before
SaveShardDs(d, shard) == [d EXCEPT ![shard.k] = shard]

SaveShardIndex(d, index, shard) ==
  IF Has(d, shard.k) THEN index ELSE UpdateShardIndex(index, shard.k)

\* StoreSvc.updateShardError: set LastErr on the copy and save the copy
updateShardError(shard, err) == [shard EXCEPT !.LastErr = err]


\* ------------------------------------------------------------- the chain

\* what the chain and the gateway may answer: every answer under "any",
\* only the successful one otherwise
Answers(good, bad) == IF env = "any" THEN good \cup bad ELSE good

\* HandleShardAssign builds the record of a shard it has not seen
NewShardInfo(k) ==
  [k |-> k, State |-> ShardStateValidated, Tries |-> 0, LastErr |-> "",
   CompleteHash |-> 0, CompleteHeight |-> 0,
   ExpireHeight |-> orders[k].Expire,
   OrderOperation |-> orders[k].Operation]

\* ---------------------------------------------------- HandleShardAssign

\* lines 520-539: GetShard, and what the handler does next with the record
AssignedHandler(k) ==
  LET shardInfo == GetShard(ds, k) IN
  IF shardInfo = EmptyShard
  THEN [IdleHandler EXCEPT !.pc = "has", !.src = "assign",
                           !.task = NewShardInfo(k)]
  ELSE [IdleHandler EXCEPT !.pc = "blocked", !.src = "assign",
                           !.task = shardInfo]

\* an accepted request (Assignee is this node, the tx has code 0 and
\* decodes, the order has a shard for this provider): GetShard, then either
\* the stored record is sent on the task channel, or a new record is built
\* and SaveShard starts
HandleShardAssign(p, k) ==
  /\ alive
  /\ handlers[p].pc = "idle"
  /\ calls < MaxCalls
  /\ calls' = calls + 1
  /\ handlers' = [handlers EXCEPT ![p] = AssignedHandler(k)]
  /\ UNCHANGED <<nodeVars, chainVars, durable, replayPc,
                 pendings, wpc, wtask, ghosts>>

\* types.ShardAssignReq: the fields the handler decides on
AssignReqs == [Assignee : Providers, k : Keys]

\* what the chain answers the handler: GetTx (txErr, TxCode), whether the
\* tx body and its message decode (bodyOk), GetOrder (orderErr), whether
\* order.Shards has a shard of this node (hasShard), whether its cid
\* decodes (cidOk)
AssignAnswers ==
  [txErr : BOOLEAN, TxCode : 0..1, bodyOk : BOOLEAN, orderErr : BOOLEAN,
   hasShard : BOOLEAN, cidOk : BOOLEAN]

NoAssignResp ==
  [req |-> [Assignee |-> "", k |-> 0],
   ans |-> [txErr |-> FALSE, TxCode |-> 0, bodyOk |-> FALSE,
            orderErr |-> FALSE, hasShard |-> FALSE, cidOk |-> FALSE],
   Code |-> 0, call |-> 0]

\* checks that take a transaction whatever its result code
AssignCheckCodeAnyTxCode(req, a) ==
  IF req.Assignee # Self THEN ErrorCodeInvalidShardAssignee
  ELSE IF a.txErr THEN ErrorCodeInternalErr
  ELSE IF ~a.bodyOk THEN ErrorCodeInvalidTx
  ELSE IF a.orderErr THEN ErrorCodeInternalErr
  ELSE IF ~a.hasShard THEN ErrorCodeInvalidProvider
  ELSE IF ~a.cidOk THEN ErrorCodeInvalidShardCid
  ELSE 0

\* HandleShardAssign, lines 450-518 and 542-547: the Code of the first
\* check that fails, 0 when none does
AssignCheckCode(req, a) ==
  IF req.Assignee # Self THEN ErrorCodeInvalidShardAssignee
  ELSE IF a.txErr THEN ErrorCodeInternalErr
  ELSE IF a.TxCode # 0 THEN ErrorCodeInvalidTx
  ELSE IF ~a.bodyOk THEN ErrorCodeInvalidTx
  ELSE IF a.orderErr THEN ErrorCodeInternalErr
  ELSE IF ~a.hasShard THEN ErrorCodeInvalidProvider
  ELSE IF ~a.cidOk THEN ErrorCodeInvalidShardCid
  ELSE 0

\* HandleShardAssign with its checks: a request that fails one is answered
\* with the Code at once; one that passes goes on as above (and is
\* answered Code 0 once its send on the task channel is taken)
HandleShardAssignReq(p, req, a) ==
  /\ alive
  /\ handlers[p].pc = "idle"
  /\ calls < MaxCalls
  /\ calls' = calls + 1
  /\ assignResp' = [assignResp EXCEPT ![p] =
                      [req |-> req, ans |-> a,
                       Code |-> AssignCheckCode(req, a),
                       call |-> calls + 1]]
  /\ handlers' = IF AssignCheckCode(req, a) # 0 THEN handlers
                 ELSE [handlers EXCEPT ![p] = AssignedHandler(req.k)]
  /\ UNCHANGED <<env, migVars, commitVars, mhandlers, lhandlers, toolVars,
                 stopVars, alive, restarts, chainVars, durable, replayPc,
                 pendings, wpc, wtask, ghosts>>

\* utils.SaveShard, ds.Has
SaveShardHas(p) ==
  /\ alive
  /\ handlers[p].pc = "has"
  /\ handlers' = [handlers EXCEPT ![p].exists = Has(ds, handlers[p].task.k),
                                  ![p].pc = "put"]
  /\ UNCHANGED <<nodeVars, calls, chainVars, durable, replayPc,
                 pendings, wpc, wtask, ghosts>>

\* utils.SaveShard, ds.Put; the index is updated only if !exists, and with
\* the record saved the handler sends it on the task channel
SaveShardPut(p) ==
  /\ alive
  /\ handlers[p].pc = "put"
  /\ ds' = SaveShardDs(ds, handlers[p].task)
  /\ handlers' = [handlers EXCEPT ![p].pc =
                    IF handlers[p].exists THEN "blocked" ELSE "idxr"]
  /\ UNCHANGED <<nodeVars, calls, chainVars, shardIndex, store,
                 replayPc, pendings, wpc, wtask, ghosts>>

\* utils.UpdateShardIndex, ds.Get of the index
UpdateShardIndexGet(p) ==
  /\ alive
  /\ handlers[p].pc = "idxr"
  /\ handlers' = [handlers EXCEPT ![p].idx = shardIndex, ![p].pc = "idxw"]
  /\ UNCHANGED <<nodeVars, calls, chainVars, durable, replayPc,
                 pendings, wpc, wtask, ghosts>>

\* utils.UpdateShardIndex, ds.Put of the index with the key appended; then
\* HandleShardAssign sends the record on the task channel
UpdateShardIndexPut(p) ==
  /\ alive
  /\ handlers[p].pc = "idxw"
  /\ shardIndex' = UpdateShardIndex(handlers[p].idx, handlers[p].task.k)
  /\ handlers' = [handlers EXCEPT ![p].pc = "blocked", ![p].idx = <<>>]
  /\ UNCHANGED <<nodeVars, calls, chainVars, ds, store, replayPc,
                 pendings, wpc, wtask, ghosts>>

\* ------------------------------------------------------------- ShardFix

\* the operator command, for a shard the node has a record of: GetShard and
\* send the record on the task channel
ShardFix(p, k) ==
  /\ alive
  /\ handlers[p].pc = "idle"
  /\ calls < MaxCalls
  /\ calls' = calls + 1
  /\ Has(ds, k)
  /\ handlers' = [handlers EXCEPT ![p] =
       [IdleHandler EXCEPT !.pc = "blocked", !.src = "fix",
                           !.task = GetShard(ds, k)]]
  /\ UNCHANGED <<nodeVars, chainVars, durable, replayPc,
                 pendings, wpc, wtask, ghosts>>

\* ------------------------------------------------------- restart replay

\* a filter that lets the terminated records through
IsPendingNotComplete(shard) == shard.State # ShardStateComplete

\* the pending filter of getPendingShardList
IsPending(shard) ==
  shard.State # ShardStateComplete /\ shard.State # ShardStateTerminate

RECURSIVE PendingOf(_, _)
PendingOf(d, keys) ==
  IF keys = <<>> THEN <<>>
  ELSE LET shard == GetShard(d, Head(keys)) IN
       IF IsPending(shard) THEN <<shard>> \o PendingOf(d, Tail(keys))
       ELSE PendingOf(d, Tail(keys))

\* StoreSvc.getPendingShardList: the records of the index keys that pass
\* the filter, in index order
getPendingShardList == PendingOf(ds, shardIndex)

\* processIncompleteShards, first half: read the pending list
processIncompleteShards ==
  /\ alive
  /\ replayPc = "start"
  /\ pendings' = getPendingShardList
  /\ replayPc' = "send"
  /\ UNCHANGED <<nodeVars, calls, chainVars, durable, handlers,
                 wpc, wtask, ghosts>>

\* ------------------------------------------------------------ the worker

IsRenew(task) == task.OrderOperation = "3"

\* process, line 571: a task in Terminate is dropped
SkipsTask(task) == task.State = ShardStateTerminate

\* a limit that allows one more attempt
RetriesExceedStrict(task) == task.Tries > MAX_RETRIES

\* process, line 576
RetriesExceed(task) == task.Tries >= MAX_RETRIES

\* an expiry that is reached at ExpireHeight itself
ExpiredAtExpireHeight(task, latestHeight) ==
  task.ExpireHeight > 0 /\ latestHeight >= task.ExpireHeight

\* process, lines 583-595
Expired(task, latestHeight) ==
  task.ExpireHeight > 0 /\ latestHeight > task.ExpireHeight

\* a process that does not load a shard it has not stored
StepOfSkipsLoad(task) ==
  IF task.State < ShardStateTxSent THEN "complete"
  ELSE "notify"

\* the step of process a task with this State goes to (lines 603, 645)
StepOf(task) ==
  IF task.State < ShardStateStored THEN "load"
  ELSE IF task.State < ShardStateTxSent THEN "complete"
  ELSE "notify"

\* process, lines 571-601: the outcome of the first part of an attempt
\* for the received copy, given whether GetLastHeight and GetNodePeer fail.
\* save: the copy is written to the datastore; pc: where the worker goes
Begin(task, heightErr, peerErr) ==
  IF SkipsTask(task)
  THEN [task |-> task, save |-> FALSE, pc |-> "idle", out |-> "skip"]
  ELSE LET t == [task EXCEPT !.Tries = @ + 1] IN
    IF RetriesExceed(t)
    THEN [task |-> updateShardError(
                     [t EXCEPT !.State = ShardStateTerminate], "retries"),
          save |-> TRUE, pc |-> "idle", out |-> "retries"]
    ELSE IF t.ExpireHeight > 0 /\ heightErr
    THEN [task |-> t, save |-> FALSE, pc |-> "idle", out |-> "height"]
    ELSE IF Expired(t, height)
    THEN [task |-> updateShardError(
                     [t EXCEPT !.State = ShardStateTerminate], "expired"),
          save |-> TRUE, pc |-> "idle", out |-> "expired"]
    ELSE IF peerErr
    THEN [task |-> updateShardError(t, "peer"),
          save |-> TRUE, pc |-> "idle", out |-> "peer"]
    ELSE [task |-> t, save |-> FALSE, pc |-> StepOf(t), out |-> "go"]

\* bookkeeping for the "badcid" environment: one more mismatch for key k
MismatchesAfter(k) ==
  IF env = "badcid" THEN [mismatches EXCEPT ![k] = Min(@ + 1, MAX_RETRIES)]
  ELSE mismatches

\* the goroutines' state when the process dies
DeadHandlers == [p \in Assigners |-> IdleHandler]

\* Start receives a task (the sender q unblocks) and process runs up to its
\* first request to the gateway
Receive(task, heightErr, peerErr) ==
  LET b == Begin(task, heightErr, peerErr) IN
  /\ wpc' = b.pc
  /\ wtask' = IF b.pc = "idle" THEN EmptyShard ELSE b.task
  /\ ds' = IF b.save THEN SaveShardDs(ds, b.task) ELSE ds
  /\ shardIndex' = IF b.save THEN SaveShardIndex(ds, shardIndex, b.task)
                   ELSE shardIndex
  /\ UNCHANGED <<nodeVars, calls, chainVars, store, replayPc, ghosts>>

\* case t, ok := <-ss.taskChan, the sender a handler
StartFromHandler(p) ==
  /\ alive
  /\ wpc = "idle"
  /\ ~closed
  /\ handlers[p].pc = "blocked"
  /\ \E heightErr \in Answers({FALSE}, {TRUE}) :
     \E peerErr \in Answers({FALSE}, {TRUE}) :
       Receive(handlers[p].task, heightErr, peerErr)
  /\ handlers' = [handlers EXCEPT ![p] = IdleHandler]
  /\ UNCHANGED pendings

\* case t, ok := <-ss.taskChan, the sender processIncompleteShards
StartFromReplay ==
  /\ alive
  /\ wpc = "idle"
  /\ ~closed
  /\ replayPc = "send"
  /\ pendings # <<>>
  /\ \E heightErr \in Answers({FALSE}, {TRUE}) :
     \E peerErr \in Answers({FALSE}, {TRUE}) :
       Receive(Head(pendings), heightErr, peerErr)
  /\ pendings' = Tail(pendings)
  /\ UNCHANGED handlers

\* the process ends (a panic of the worker goroutine, or a kill): every
\* goroutine and the task channel are gone, the durable state stays
Dies ==
  /\ alive' = FALSE
  /\ handlers' = DeadHandlers
  /\ pendings' = <<>>
  /\ replayPc' = "off"
  /\ wpc' = "idle"
  /\ wtask' = EmptyShard

\* the worker ends an attempt with the copy t saved (save) or not
EndAttempt(t, save) ==
  /\ wpc' = "idle"
  /\ wtask' = EmptyShard
  /\ ds' = IF save THEN SaveShardDs(ds, t) ELSE ds
  /\ shardIndex' = IF save THEN SaveShardIndex(ds, shardIndex, t)
                   ELSE shardIndex
  /\ UNCHANGED <<alive, handlers, pendings, replayPc>>

\* what RequestShardStore and the store answer for a task (lines 605-637):
\*   "ok"       Code 0, content whose cid is task.Cid, Store succeeds
\*   "resp"     Code # 0
\*   "mismatch" Code 0, content with another cid
\*   "store"    storeManager.Store fails
\*   "exist" / "missing"   IsExist for a renew
LoadAnswers(task) ==
  IF IsRenew(task)
  THEN IF store[task.k] # "none" THEN {"exist"} ELSE {"missing"}
  ELSE IF env = "badcid" THEN {"mismatch"}
  ELSE Answers({"ok"}, {"resp", "mismatch", "store"})

\* lines 638-639: the task once its content is in the store
StoredTask(task) ==
  [task EXCEPT !.State = ShardStateStored]

\* updateShardError(task, err) with err == nil (lines 618 and 634): the
\* call err.Error() on a nil error panics
NilErrorPanics(answer) == answer \in {"mismatch", "missing"}

\* process, lines 603-643
ProcessLoad ==
  /\ alive
  /\ wpc = "load"
  /\ \E answer \in LoadAnswers(wtask) :
       IF NilErrorPanics(answer)
       THEN /\ Dies
            /\ mismatches' = IF answer = "mismatch"
                             THEN MismatchesAfter(wtask.k) ELSE mismatches
            /\ UNCHANGED <<durable>>
       ELSE IF answer \in {"resp", "store"}
       THEN /\ EndAttempt(updateShardError(wtask, answer), TRUE)
            /\ UNCHANGED <<store, mismatches>>
       ELSE /\ wtask' = StoredTask(wtask)
            /\ ds' = SaveShardDs(ds, wtask')
            /\ shardIndex' = SaveShardIndex(ds, shardIndex, wtask')
            /\ store' = IF answer = "ok"
                        THEN [store EXCEPT ![wtask.k] = "good"] ELSE store
            /\ wpc' = StepOf(wtask')
            /\ UNCHANGED <<alive, handlers, pendings, replayPc, mismatches>>
  /\ UNCHANGED <<outside, restarts, calls, chainVars, completeCount, lastNotify>>

\* a completion that does not keep the transaction hash
CompletedTaskNoHash(task, txHash, txHeight) ==
  [task EXCEPT !.State = ShardStateComplete, !.CompleteHeight = txHeight]

\* lines 653-655: the task once CompleteOrder returned (txHash, height)
CompletedTask(task, txHash, txHeight) ==
  [task EXCEPT !.State = ShardStateComplete, !.CompleteHash = txHash,
               !.CompleteHeight = txHeight]

\* the hash the chain gives the next MsgComplete of a key (never empty)
NextTxHash(k) == Min(completeCount[k] + 1, MaxTx)

\* process, lines 645-660
ProcessComplete ==
  /\ alive
  /\ wpc = "complete"
  /\ \E answer \in Answers({"ok"}, {"tx"}) :
       IF answer = "tx"
       THEN /\ EndAttempt(updateShardError(wtask, "tx"), TRUE)
            /\ UNCHANGED completeCount
       ELSE /\ completeCount' =
                 [completeCount EXCEPT ![wtask.k] = NextTxHash(wtask.k)]
            /\ wtask' = CompletedTask(wtask, NextTxHash(wtask.k), height)
            /\ ds' = SaveShardDs(ds, wtask')
            /\ shardIndex' = SaveShardIndex(ds, shardIndex, wtask')
            /\ wpc' = "notify"
            /\ UNCHANGED <<alive, handlers, pendings, replayPc>>
  /\ UNCHANGED <<outside, restarts, calls, chainVars, store, lastNotify,
                 mismatches>>

\* a notification without the completion height
ShardCompleteReqNoHeight(task) ==
  [TxHash |-> task.CompleteHash, Height |-> 0]

\* lines 662-668: the ShardCompleteReq built from the task
ShardCompleteReq(task) ==
  [TxHash |-> task.CompleteHash, Height |-> task.CompleteHeight]

\* lines 669-679: the record after the gateway's answer.  updateShardError
\* saves a copy with LastErr; the task of process keeps its LastErr, and is
\* saved over it when its State is below Complete
AfterNotify(d, task, answer) ==
  LET d1 == IF answer = "resp"
            THEN SaveShardDs(d, updateShardError(task, "resp")) ELSE d
  IN IF task.State < ShardStateComplete
     THEN SaveShardDs(d1, [task EXCEPT !.State = ShardStateComplete])
     ELSE d1

\* process, lines 662-680
ProcessNotify ==
  /\ alive
  /\ wpc = "notify"
  /\ \E answer \in Answers({"ok"}, {"resp"}) :
       /\ lastNotify' = [lastNotify EXCEPT ![wtask.k] = ShardCompleteReq(wtask)]
       /\ ds' = AfterNotify(ds, wtask, answer)
       /\ shardIndex' = SaveShardIndex(ds, shardIndex, wtask)
       /\ wpc' = "idle"
       /\ wtask' = EmptyShard
  /\ UNCHANGED <<nodeVars, calls, chainVars, store, handlers,
                 pendings, replayPc, completeCount, mismatches>>

\* ------------------------------------------------------ the environment

\* a new block
Tick ==
  /\ height < MaxHeight
  /\ height' = height + 1
  /\ UNCHANGED <<nodeVars, calls, orders, durable, handlers, replayPc,
                 pendings, wpc, wtask, ghosts>>

\* the node process is killed
Crash ==
  /\ alive
  /\ restarts < MaxRestarts
  /\ Dies
  /\ UNCHANGED <<outside, restarts, calls, chainVars, durable, ghosts>>

\* the node is started again: NewStoreService starts
\* processIncompleteShards, and the worker loop Start runs
Restart ==
  /\ ~alive
  /\ restarts < MaxRestarts
  /\ alive' = TRUE
  /\ restarts' = restarts + 1
  /\ replayPc' = "start"
  /\ closed' = FALSE
  /\ ctxDone' = FALSE
  /\ UNCHANGED <<env, migVars, commitVars, peerVars, toolVars, calls,
                 chainVars, durable, handlers, pendings, wpc, wtask,
                 ghosts>>

\* StoreSvc.Stop: close(ss.taskChan); closing a channel that is closed
\* already panics
Stop ==
  /\ alive
  /\ IF closed
       THEN /\ Dies
            /\ UNCHANGED closed
     ELSE /\ closed' = TRUE
          /\ UNCHANGED <<alive, handlers, pendings, replayPc, wpc, wtask>>
  /\ UNCHANGED <<env, migVars, commitVars, peerVars, toolVars, ctxDone,
                 restarts, calls, chainVars, durable, ghosts>>

\* the context Start was given is cancelled
Cancel ==
  /\ alive
  /\ ~ctxDone
  /\ ctxDone' = TRUE
  /\ UNCHANGED <<shardVars, migVars, commitVars, peerVars, toolVars, closed>>

\* ss.taskChan <- shardInfo on the closed channel, in HandleShardAssign,
\* ShardFix or processIncompleteShards: the send panics
SendOnClosed ==
  /\ alive
  /\ closed
  /\ \/ \E p \in Assigners : handlers[p].pc = "blocked"
     \/ replayPc = "send" /\ pendings # <<>>
  /\ Dies
  /\ UNCHANGED <<outside, restarts, calls, chainVars, durable, ghosts>>

\* a loop that does not watch its context
StartReturnsOnCloseOnly ==
  /\ alive
  /\ wpc = "idle"
  /\ closed
  /\ wpc' = "returned"
  /\ UNCHANGED <<nodeVars, calls, chainVars, durable, handlers, replayPc,
                 pendings, wtask, ghosts>>

\* Start returns: case t, ok := <-ss.taskChan with ok false, or
\* case <-ctx.Done()
StartReturns ==
  /\ alive
  /\ wpc = "idle"
  /\ closed \/ ctxDone
  /\ wpc' = "returned"
  /\ UNCHANGED <<nodeVars, calls, chainVars, durable, handlers, replayPc,
                 pendings, wtask, ghosts>>

\* ------------------------------------------------- the migration engine

\* the zero value types.MigrateInfo{}
NoMigrate ==
  [DataId |-> 0, ToProvider |-> "", State |-> MigrateStateTxSent,
   CompleteTxHash |-> 0, CompleteTxHeight |-> 0]

NoRequest == [DataId |-> 0, ToProvider |-> ""]

\* what the worker holds of the answers to its requests: the response of
\* RequestShardMigrate, the result of GetTx, and order.Shards[ToProvider]
NoAnswers ==
  [peerErr |-> FALSE, Code |-> 0, CompleteHash |-> 0, CompleteHeight |-> 0,
   txErr |-> FALSE, TxCode |-> 0, orderErr |-> FALSE, exists |-> FALSE,
   From |-> "", Status |-> ""]

\* the answers the peer and the chain can give to one processMigrate
MigrateAnswers ==
  [peerErr : BOOLEAN, Code : {0, 1}, CompleteHash : 1..MaxTx,
   CompleteHeight : Heights, txErr : BOOLEAN, TxCode : {0, 1},
   orderErr : BOOLEAN, exists : BOOLEAN, From : Providers,
   Status : ShardStatuses]

IdleMigrator == [pc |-> "idle", todo |-> {}, req |-> NoRequest]

\* utils.GetMigrate: the record, the zero value if there is none
GetMigrate(d, dataId) == d[dataId]

\* utils.SaveMigrate: Put of the record
SaveMigrateDs(d, mi) == [d EXCEPT ![mi.DataId] = mi]

\* utils.SaveMigrate: the index gets the key when the record is new
SaveMigrateIndex(d, index, mi) ==
  IF d[mi.DataId] # NoMigrate THEN index ELSE Append(index, mi.DataId)

\* Migrate, lines 799-805: the job recorded for a data id
NewMigrateInfo(dataId) ==
  [NoMigrate EXCEPT !.DataId = dataId, !.State = MigrateStateTxSent]

\* Migrate, line 794: MigrateOrder answers; okIds are the data ids whose
\* result begins with SUCCESS
Migrate(ids, okIds) ==
  /\ migrator.pc = "idle"
  /\ okIds \subseteq ids
  /\ migrator' = [migrator EXCEPT !.pc = IF okIds = {} THEN "idle"
                                         ELSE "save",
                                  !.todo = okIds]
  /\ UNCHANGED <<migrateDs, migrateIndex, mpc, mreq, mresp, minfo>>
  /\ UNCHANGED exceptMig

\* Migrate, lines 797-809: save the migrate job of one data id
MigrateSave(dataId) ==
  /\ migrator.pc = "save"
  /\ dataId \in migrator.todo
  /\ migrateDs' = SaveMigrateDs(migrateDs, NewMigrateInfo(dataId))
  /\ migrateIndex' =
       SaveMigrateIndex(migrateDs, migrateIndex, NewMigrateInfo(dataId))
  /\ migrator' = [migrator EXCEPT !.pc = "resolve",
                                  !.req = [DataId |-> dataId,
                                           ToProvider |-> ""]]
  /\ UNCHANGED <<mpc, mreq, mresp, minfo>>
  /\ UNCHANGED exceptMig

\* the position of Migrate after the data id of its request
AfterDataId(m) ==
  LET rest == m.todo \ {m.req.DataId} IN
  [pc |-> IF rest = {} THEN "idle" ELSE "save", todo |-> rest,
   req |-> NoRequest]

\* Migrate, lines 811-847: look for the shard entry of the new provider
\* (found: an entry with the cid, Status Waiting and From this node); with
\* one, save the job again and send the request on migrateChan
MigrateResolve(found) ==
  /\ migrator.pc = "resolve"
  /\ IF found
     THEN LET mi == [NewMigrateInfo(migrator.req.DataId)
                       EXCEPT !.ToProvider = Dest] IN
          /\ migrateDs' = SaveMigrateDs(migrateDs, mi)
          /\ migrateIndex' = SaveMigrateIndex(migrateDs, migrateIndex, mi)
          /\ migrator' = [migrator EXCEPT !.pc = "blocked",
                                          !.req.ToProvider = Dest]
     ELSE /\ migrator' = AfterDataId(migrator)
          /\ UNCHANGED <<migrateDs, migrateIndex>>
  /\ UNCHANGED <<mpc, mreq, mresp, minfo>>
  /\ UNCHANGED exceptMig

\* processMigrateLoop receives a request, and processMigrate reads the
\* shard content from the store (lines 122-133)
StartMigrate(storeErr) ==
  /\ mpc = "idle"
  /\ migrator.pc = "blocked"
  /\ migrator' = AfterDataId(migrator)
  /\ mpc' = IF storeErr THEN "idle" ELSE "request"
  /\ mreq' = IF storeErr THEN NoRequest ELSE migrator.req
  /\ UNCHANGED <<migrateDs, migrateIndex, mresp, minfo>>
  /\ UNCHANGED exceptMig

\* checks that take the shard entry of the new provider in any status
ValidatesAnyStatus(a) ==
  /\ ~ a.peerErr
  /\ a.Code = 0
  /\ ~ a.txErr
  /\ a.TxCode = 0
  /\ ~ a.orderErr
  /\ a.exists
  /\ a.From = Self

\* processMigrate, lines 135-178: the checks on the answers, each of which
\* returns an error when it fails
Validates(a) ==
  /\ ~ a.peerErr
  /\ a.Code = 0
  /\ ~ a.txErr
  /\ a.TxCode = 0
  /\ ~ a.orderErr
  /\ a.exists
  /\ a.From = Self
  /\ a.Status = ShardCompleted

\* processMigrate, lines 135-179: the requests to the new provider and to
\* the chain
ProcessMigrateRequest(a) ==
  /\ mpc = "request"
  /\ IF Validates(a)
     THEN /\ mpc' = "get"
          /\ mresp' = a
          /\ UNCHANGED mreq
     ELSE /\ mpc' = "idle"
          /\ mresp' = NoAnswers
          /\ mreq' = NoRequest
  /\ UNCHANGED <<migrateDs, migrateIndex, migrator, minfo>>
  /\ UNCHANGED exceptMig

\* processMigrate, line 181
ProcessMigrateGet ==
  /\ mpc = "get"
  /\ minfo' = GetMigrate(migrateDs, mreq.DataId)
  /\ mpc' = "put"
  /\ UNCHANGED <<migrateDs, migrateIndex, migrator, mreq, mresp>>
  /\ UNCHANGED exceptMig

\* processMigrate, lines 185-187: the record the worker saves
CompletedMigrate(mi, resp) ==
  [mi EXCEPT !.State = MigrateStateComplete,
             !.CompleteTxHash = resp.CompleteHash,
             !.CompleteTxHeight = resp.CompleteHeight]

\* processMigrate, lines 185-194
ProcessMigratePut ==
  /\ mpc = "put"
  /\ migrateDs' = SaveMigrateDs(migrateDs, CompletedMigrate(minfo, mresp))
  /\ migrateIndex' = SaveMigrateIndex(migrateDs, migrateIndex,
                                      CompletedMigrate(minfo, mresp))
  /\ mpc' = "idle"
  /\ mreq' = NoRequest
  /\ mresp' = NoAnswers
  /\ minfo' = NoMigrate
  /\ UNCHANGED migrator
  /\ UNCHANGED exceptMig

\* --------------------------------------- the receiver of a migrated shard

\* what HandleShardMigrate leaves alone: all but its goroutines, the shard
\* store and the MsgComplete it submits
exceptPeer ==
  <<env, alive, restarts, calls, height, orders, ds, shardIndex, handlers,
    replayPc, pendings, wpc, wtask, lastNotify, mismatches, migVars,
    commitVars, toolVars, stopVars, assignResp>>

\* cids as the chain order can hold them: those of Keys, and 0 for a cid
\* that is not the one of the request
OrderCids == 0..NumShards

\* the content a request can carry: bytes whose cid is req.Cid, or others
Contents == {"good", "bad"}

\* types.ShardMigrateReq: the fields the handler decides on
MigrateReqs == [MigrateFrom : Providers, Cid : Keys, Content : Contents]

NoMigrateReq == [MigrateFrom |-> "", Cid |-> 0, Content |-> ""]

\* the answers of the chain to GetTx and GetOrder: the MsgMigrate result
\* of req.DataId ("" when the data id is not in the tx) and the order's
\* shard entry of this node
MigrateChecks ==
  [txErr : BOOLEAN, TxCode : {0, 1}, result : {"", "SUCCESS", "FAIL"},
   orderErr : BOOLEAN, exists : BOOLEAN, From : Providers,
   Cid : OrderCids, Status : ShardStatuses]

NoChecks ==
  [txErr |-> FALSE, TxCode |-> 0, result |-> "", orderErr |-> FALSE,
   exists |-> FALSE, From |-> "", Cid |-> 0, Status |-> ""]

\* types.ShardMigrateResp
MigrateResp(code, hash, txHeight) ==
  [Code |-> code, CompleteHash |-> hash, CompleteHeight |-> txHeight]

IdleMigrateHandler ==
  [pc |-> "idle", req |-> NoMigrateReq, ans |-> NoChecks,
   resp |-> MigrateResp(0, 0, 0)]

\* checks that take the shard entry in any status
MigrateCheckCodeAnyStatus(req, a) ==
  IF a.txErr THEN ErrorCodeInternalErr
  ELSE IF a.TxCode # 0 THEN ErrorCodeInternalErr
  ELSE IF a.result = "" THEN ErrorCodeInternalErr
  ELSE IF a.result # "SUCCESS" THEN ErrorCodeInternalErr
  ELSE IF a.orderErr THEN ErrorCodeInternalErr
  ELSE IF ~ a.exists THEN ErrorCodeInternalErr
  ELSE IF a.From # req.MigrateFrom THEN ErrorCodeInternalErr
  ELSE IF a.Cid # req.Cid THEN ErrorCodeInternalErr
  ELSE 0

\* HandleShardMigrate, lines 217-291: the Code of the first check that
\* fails, 0 when none does
MigrateCheckCode(req, a) ==
  IF a.txErr THEN ErrorCodeInternalErr
  ELSE IF a.TxCode # 0 THEN ErrorCodeInternalErr
  ELSE IF a.result = "" THEN ErrorCodeInternalErr
  ELSE IF a.result # "SUCCESS" THEN ErrorCodeInternalErr
  ELSE IF a.orderErr THEN ErrorCodeInternalErr
  ELSE IF ~ a.exists THEN ErrorCodeInternalErr
  ELSE IF a.From # req.MigrateFrom THEN ErrorCodeInternalErr
  ELSE IF a.Cid # req.Cid THEN ErrorCodeInternalErr
  ELSE IF a.Status # ShardWaiting THEN ErrorCodeInternalErr
  ELSE 0

\* the handler returns resp
MigrateReturns(h, resp) == [h EXCEPT !.pc = "done", !.resp = resp]

\* HandleShardMigrate, lines 208-291: a request arrives and is checked
\* against the chain
HandleShardMigrate(p, req, a) ==
  /\ mhandlers[p].pc = "idle"
  /\ LET h == [mhandlers[p] EXCEPT !.req = req, !.ans = a]
         code == MigrateCheckCode(req, a) IN
     mhandlers' = [mhandlers EXCEPT ![p] =
                     IF code # 0
                     THEN MigrateReturns(h, MigrateResp(code, 0, 0))
                     ELSE [h EXCEPT !.pc = "store"]]
  /\ UNCHANGED <<store, completeCount, lhandlers>>
  /\ UNCHANGED exceptPeer

\* HandleShardMigrate, lines 293-304: cid.Decode and storeManager.Store
HandleShardMigrateStore(p, ok) ==
  /\ mhandlers[p].pc = "store"
  /\ mhandlers' = [mhandlers EXCEPT ![p] =
                     IF ok THEN [@ EXCEPT !.pc = "complete"]
                     ELSE MigrateReturns(
                            @, MigrateResp(ErrorCodeInternalErr, 0, 0))]
  /\ store' = IF ok THEN [store EXCEPT ![mhandlers[p].req.Cid] =
                                         mhandlers[p].req.Content]
              ELSE store
  /\ UNCHANGED <<completeCount, lhandlers>>
  /\ UNCHANGED exceptPeer

\* HandleShardMigrate, lines 305-319: CompleteOrder and the response
HandleShardMigrateComplete(p, ok) ==
  /\ mhandlers[p].pc = "complete"
  /\ LET k == mhandlers[p].req.Cid IN
     IF ok
     THEN /\ completeCount' = [completeCount EXCEPT ![k] = NextTxHash(k)]
          /\ mhandlers' = [mhandlers EXCEPT ![p] =
               MigrateReturns(@, MigrateResp(0, NextTxHash(k), height))]
     ELSE /\ mhandlers' = [mhandlers EXCEPT ![p] =
               MigrateReturns(@, MigrateResp(ErrorCodeInvalidTx, 0, 0))]
          /\ UNCHANGED completeCount
  /\ UNCHANGED <<store, lhandlers>>
  /\ UNCHANGED exceptPeer

\* the response is written to the stream; the goroutine ends
HandleShardMigrateEnd(p) ==
  /\ mhandlers[p].pc = "done"
  /\ mhandlers' = [mhandlers EXCEPT ![p] = IdleMigrateHandler]
  /\ UNCHANGED <<store, completeCount, lhandlers>>
  /\ UNCHANGED exceptPeer

\* ------------------------------------------------- serving a shard load

\* req.Proposal.Proposal.Owner: a DID, or "all" for a public query
Owners == {"did", "all"}

\* a signature on a proposal: none, one its signer made, or another
Signatures == {"none", "valid", "invalid"}

\* LastValidHeight of a query proposal
ValidHeights == 0..(MaxHeight + 1)

\* types.ShardLoadReq and the remote peer id, in the terms the handler
\* decides on:
\*   Jws           req.Proposal.JwsSignature
\*   FromGateway   req.Proposal.Proposal.Gateway contains remotePeerId
\*   RelaySig      req.RelayProposal.Signature
\*   RelayNamesPeer  req.RelayProposal.Proposal.RelayPeerIds contains
\*                 remotePeerId
LoadReqs ==
  [Owner : Owners, Jws : Signatures, FromGateway : BOOLEAN,
   RelaySig : Signatures, RelayNamesPeer : BOOLEAN,
   LastValidHeight : ValidHeights, Cid : Keys]

NoLoadReq ==
  [Owner |-> "", Jws |-> "none", FromGateway |-> FALSE, RelaySig |-> "none",
   RelayNamesPeer |-> FALSE, LastValidHeight |-> 0, Cid |-> 0]

\* the failures of the requests HandleShardLoad makes: the sid document of
\* the owner, GetAccount, GetLastHeight, and the read of the store
LoadAnswerSet ==
  [didErr : BOOLEAN, accountErr : BOOLEAN, heightErr : BOOLEAN,
   readErr : BOOLEAN]

\* types.ShardLoadResp
LoadResp(code, content) == [Code |-> code, Content |-> content]

NoLoadAnswers ==
  [didErr |-> FALSE, accountErr |-> FALSE, heightErr |-> FALSE,
   readErr |-> FALSE]

IdleLoadHandler ==
  [pc |-> "idle", req |-> NoLoadReq, ans |-> NoLoadAnswers,
   lastHeight |-> 0, content |-> "none", resp |-> LoadResp(0, "")]

\* lines 336-372: NewDidManagerWithDid(Owner) and VerifyJWS of the
\* proposal: it verifies when the owner is a DID that resolves and the
\* signature is one the owner made
VerifiesJWS(req, a) ==
  /\ req.Owner # "all"
  /\ ~ a.didErr
  /\ req.Jws = "valid"

\* lines 374-399: the peer is the gateway of the proposal, or the relay
\* proposal is signed and names it and the account of the relay node is
\* found; the result of VerifySignature (line 392) is not looked at
PeerAccepted(req, a) ==
  \/ req.FromGateway
  \/ /\ req.RelaySig # "none"
     /\ req.RelayNamesPeer
     /\ ~ a.accountErr

\* a check that also refuses the last valid height itself
HeightInvalidAtLast(lastValidHeight, lastHeight) ==
  lastValidHeight <= lastHeight

\* lines 409-414
HeightInvalid(lastValidHeight, lastHeight) == lastValidHeight < lastHeight

\* HandleShardLoad, lines 336-429: the response to req when the chain is
\* at lastHeight and the store holds content for req.Cid
LoadResponse(req, a, lastHeight, content) ==
  IF ~ VerifiesJWS(req, a) THEN LoadResp(ErrorCodeInternalErr, "")
  ELSE IF ~ PeerAccepted(req, a) THEN LoadResp(ErrorCodeInternalErr, "")
  ELSE IF a.heightErr THEN LoadResp(ErrorCodeInternalErr, "")
  ELSE IF HeightInvalid(req.LastValidHeight, lastHeight)
       THEN LoadResp(ErrorCodeInternalErr, "")
  ELSE IF content = "none" \/ a.readErr
       THEN LoadResp(ErrorCodeInternalErr, "")
  ELSE LoadResp(0, content)

\* HandleShardLoad
HandleShardLoad(p, req, a) ==
  /\ lhandlers[p].pc = "idle"
  /\ lhandlers' = [lhandlers EXCEPT ![p] =
       [pc |-> "done", req |-> req, ans |-> a, lastHeight |-> height,
        content |-> store[req.Cid],
        resp |-> LoadResponse(req, a, height, store[req.Cid])]]
  /\ UNCHANGED <<mhandlers, store, completeCount>>
  /\ UNCHANGED exceptPeer

\* the response is written to the stream; the goroutine ends
HandleShardLoadEnd(p) ==
  /\ lhandlers[p].pc = "done"
  /\ lhandlers' = [lhandlers EXCEPT ![p] = IdleLoadHandler]
  /\ UNCHANGED <<mhandlers, store, completeCount>>
  /\ UNCHANGED exceptPeer

\* ------------------------------------------------ the gateway's commit

\* A call of CommitModel (op "commit") or renewModel (op "renew"): orderId
\* is the argument, order the id the call goes on with, txs the order
\* transactions it has submitted, subs its SubscribeOrderComplete and
\* UnsubscribeOrderComplete calls, registered the order id its subscription
\* is registered for (0 for none), doneChan the channel it waits on, cause
\* how its wait ended, queried whether it asked for the metadata or the order
IdleCommit ==
  [pc |-> "idle", op |-> "", path |-> 0, orderId |-> 0, order |-> 0,
   txs |-> <<>>, subs |-> <<>>, registered |-> 0, doneChan |-> "none",
   cause |-> "", timeout |-> FALSE, staged |-> FALSE, queried |-> FALSE,
   result |-> ""]

\* no file at a staging path
NoFile == 0

\* the order ids of the model; 0 is no order
OrderIds == 1..MaxOrderId

\* StageShard: the file of the path is created, or truncated if there is
\* one, and written by the call c
StageShard(st, path, c) == [st EXCEPT ![path] = c]

\* UnstageShard: the file of the path is deleted
UnstageShard(st, path) == [st EXCEPT ![path] = NoFile]

\* a CommitModel that returns: err # nil, or the CommitResult
Returns(commit, result) == [commit EXCEPT !.pc = "done", !.result = result]

\* CommitModel, lines 214-218: a client's call for the content of a path;
\* an error of StageShard is returned
CommitModel(c, path, orderId, ok) ==
  /\ commits[c].pc = "idle"
  /\ staging' = IF ok THEN StageShard(staging, path, c) ELSE staging
  /\ commits' = [commits EXCEPT ![c] =
                   IF ok THEN [IdleCommit EXCEPT !.pc = "tx",
                                                 !.op = "commit",
                                                 !.path = path,
                                                 !.orderId = orderId,
                                                 !.staged = TRUE]
                   ELSE Returns([IdleCommit EXCEPT !.op = "commit",
                                                   !.path = path,
                                                   !.orderId = orderId],
                                "error")]
  /\ UNCHANGED exceptCommit

\* renewModel, lines 288-289: a renewal of the order orderId
renewModel(c, orderId) ==
  /\ commits[c].pc = "idle"
  /\ commits' = [commits EXCEPT ![c] =
                   [IdleCommit EXCEPT !.pc = "tx", !.op = "renew",
                                      !.orderId = orderId]]
  /\ UNCHANGED staging
  /\ UNCHANGED exceptCommit

OrderTxReadyOnly(commit) == <<"MsgReady">>

\* the order transaction of the call: StoreOrder when CommitModel has no
\* order id, OrderReady otherwise
OrderTx(commit) ==
  IF commit.op = "commit" /\ commit.orderId = 0 THEN <<"MsgStore">>
  ELSE <<"MsgReady">>

\* CommitModel, lines 220-234, and renewModel, lines 291-296: StoreOrder,
\* whose result has the order id, or OrderReady; an error is returned
CommitTx(c, ok, id) ==
  /\ commits[c].pc = "tx"
  /\ commits' = [commits EXCEPT ![c] =
       LET sent == [@ EXCEPT !.txs = @ \o OrderTx(commits[c])] IN
       IF ~ok THEN Returns(sent, "error")
       ELSE [sent EXCEPT !.pc = "subscribe",
                         !.order = IF OrderTx(commits[c]) = <<"MsgStore">>
                                     THEN id ELSE commits[c].orderId]]
  /\ UNCHANGED staging
  /\ UNCHANGED exceptCommit

\* CommitModel, lines 236-240, and renewModel, lines 298-301:
\* SubscribeOrderComplete with a new channel; an error is returned
CommitSubscribe(c, ok) ==
  /\ commits[c].pc = "subscribe"
  /\ commits' = [commits EXCEPT ![c] =
                   IF ok THEN [@ EXCEPT !.pc = "wait",
                                        !.subs = <<<<"Subscribe",
                                                     commits[c].order>>>>,
                                        !.registered = commits[c].order,
                                        !.doneChan = "open"]
                   ELSE Returns(@, "error")]
  /\ UNCHANGED staging
  /\ UNCHANGED exceptCommit

\* the ways the select of the wait ends: a result received from doneChan,
\* time.After, ctx.Done()
WaitCauses == {"event", "timeout", "cancel"}

\* CommitModel, lines 244-252, and renewModel, lines 305-315: the wait
\* ends, and close(doneChan)
CommitWait(c, cause) ==
  /\ commits[c].pc = "wait"
  /\ commits' = [commits EXCEPT ![c].pc = "unsubscribe",
                                ![c].cause = cause,
                                ![c].timeout = (cause # "event"),
                                ![c].doneChan = "closed"]
  /\ UNCHANGED staging
  /\ UNCHANGED exceptCommit

\* the subscription of the call publishes the order's completion after the
\* wait ended without it, while it is registered: a send on the closed
\* channel panics, and the process ends
SubscriptionSends(c) ==
  /\ commits[c].pc \in {"unsubscribe", "unstage", "query", "done"}
  /\ commits[c].registered # 0
  /\ commits[c].cause # "event"
  /\ commits[c].doneChan = "closed"
  /\ commits' = [d \in Callers |->
                   IF d = c THEN [commits[d] EXCEPT !.pc = "panic",
                                                    !.result = "panic"]
                   ELSE IF commits[d].pc = "idle" THEN commits[d]
                   ELSE [commits[d] EXCEPT !.pc = "panic"]]
  /\ UNCHANGED staging
  /\ UNCHANGED exceptCommit

AfterUnsubscribeLeaves(commit, ok) ==
  IF commit.timeout
    THEN IF commit.op = "commit" THEN [commit EXCEPT !.pc = "unstage"]
         ELSE Returns(commit, "timeout")
  ELSE LET called == [commit EXCEPT
                        !.subs = @ \o <<<<"Unsubscribe", commit.order>>>>,
                        !.registered = IF ok THEN 0 ELSE @]
       IN IF commit.op = "commit" THEN [called EXCEPT !.pc = "unstage"]
          ELSE IF ~ok THEN Returns(called, "error")
          ELSE [called EXCEPT !.pc = "query"]

\* CommitModel, lines 254-259: UnsubscribeOrderComplete, whose error is only
\* logged; renewModel, lines 317-326: its error is returned, and then the
\* timeout
AfterUnsubscribe(commit, ok) ==
  LET called == [commit EXCEPT
                   !.subs = @ \o <<<<"Unsubscribe", commit.order>>>>,
                   !.registered = IF ok THEN 0 ELSE @]
  IN IF commit.op = "commit" THEN [called EXCEPT !.pc = "unstage"]
     ELSE IF ~ok THEN Returns(called, "error")
     ELSE IF commit.timeout THEN Returns(called, "timeout")
     ELSE [called EXCEPT !.pc = "query"]

CommitUnsubscribe(c, ok) ==
  /\ commits[c].pc = "unsubscribe"
  /\ commits' = [commits EXCEPT ![c] = AfterUnsubscribe(@, ok)]
  /\ UNCHANGED staging
  /\ UNCHANGED exceptCommit

AfterUnstageQueries(commit, ok) ==
  IF ~ok THEN Returns(commit, "error")
  ELSE [commit EXCEPT !.pc = "query"]

\* CommitModel, lines 261-269: the error of UnstageShard is returned, then
\* the timeout
AfterUnstage(commit, ok) ==
  IF ~ok THEN Returns(commit, "error")
  ELSE IF commit.timeout THEN Returns(commit, "timeout")
  ELSE [commit EXCEPT !.pc = "query"]

CommitUnstage(c, ok) ==
  /\ commits[c].pc = "unstage"
  /\ staging' = IF ok THEN UnstageShard(staging, commits[c].path)
                ELSE staging
  /\ commits' = [commits EXCEPT ![c] = AfterUnstage(@, ok)]
  /\ UNCHANGED exceptCommit

\* CommitModel, lines 271-285: QueryMeta and the CommitResult; renewModel,
\* lines 328-334: GetOrder and the result
CommitQuery(c, ok) ==
  /\ commits[c].pc = "query"
  /\ commits' = [commits EXCEPT ![c] =
                   Returns([@ EXCEPT !.queried = TRUE],
                           IF ok THEN "ok" ELSE "error")]
  /\ UNCHANGED staging
  /\ UNCHANGED exceptCommit

\* the caller has the result; its goroutine ends
CommitEnd(c) ==
  /\ commits[c].pc = "done"
  /\ commits' = [commits EXCEPT ![c] = IdleCommit]
  /\ UNCHANGED staging
  /\ UNCHANGED exceptCommit

\* ------------------------------------------------- the client commands

\* the int flags --duration, --replica and --delay as the user can give them
Days == (0 - MaxDays)..MaxDays

\* the lengths of --extend-info around the limit of createCmd and updateCmd
ExtendInfoLens == (ExtendInfoLimit - 1)..(ExtendInfoLimit + MaxExtra)

\* the flags of createCmd and updateCmd the commands decide on: given is
\* a non-empty --content (create) or a set --keyword (update); cidOk is
\* whether --cid decodes (update); path and creator are those of snode init
CmdArgs ==
  [given : BOOLEAN, size : 0..1, cidOk : BOOLEAN, duration : Days,
   replica : Days, delay : Days, extendInfo : ExtendInfoLens,
   clientPublish : BOOLEAN, path : {0}, creator : {0}]

NoArgs ==
  [given |-> FALSE, size |-> 0, cidOk |-> FALSE, duration |-> 0,
   replica |-> 0, delay |-> 0, extendInfo |-> 0, clientPublish |-> FALSE,
   path |-> 0, creator |-> 0]

NoCommand ==
  [cmd |-> "", args |-> NoArgs, results |-> <<>>, calls |-> <<>>,
   err |-> "", out |-> <<>>]

ExtendInfoTooLongAtLimit(n) == n >= ExtendInfoLimit

\* len(extendInfo) > 1024
ExtendInfoTooLong(n) == n > ExtendInfoLimit

\* A behaviour holds one run of create, update or renew: the command runs
\* while cli is NoCommand, and cli is then what it did.

\* the command returns an error of its parameter checks
Rejected(cmd, args, err) ==
  [cmd |-> cmd, args |-> args, results |-> <<>>, calls |-> <<>>,
   err |-> err, out |-> <<>>]

\* the command makes its requests in order; the one numbered failAt
\* returns an error (none when failAt is 0), and the command returns it
Requested(reqs, failAt) ==
  IF failAt = 0 THEN [calls |-> reqs, err |-> ""]
  ELSE [calls |-> SubSeq(reqs, 1, failAt), err |-> "failed"]

\* client.StoreOrder, when the client publishes the order itself
StoreOrder(args) == IF args.clientPublish THEN <<"StoreOrder">> ELSE <<>>

\* createCmd after its checks: getSaoClient, client.GetNodeAddress,
\* StoreOrder, buildQueryRequest (GetLastHeight, GetNodePeer), ModelCreate
createRequests(args) ==
  <<"getSaoClient", "GetNodeAddress">> \o StoreOrder(args)
    \o <<"GetLastHeight", "GetNodePeer", "ModelCreate">>

\* updateCmd after its checks: getSaoClient, client.GetNodeAddress,
\* buildQueryRequest, QueryMetadata, StoreOrder, ModelUpdate
updateRequests(args) ==
  <<"getSaoClient", "GetNodeAddress", "GetLastHeight", "GetNodePeer",
    "QueryMetadata">> \o StoreOrder(args) \o <<"ModelUpdate">>

createCmd(args, failAt) ==
  /\ cli = NoCommand
  /\ failAt <= Len(createRequests(args))
  /\ cli' =
       IF ~args.given THEN Rejected("create", args, "ErrInvalidParameters")
       ELSE IF ExtendInfoTooLong(args.extendInfo)
         THEN Rejected("create", args, "ErrInvalidParameters")
       ELSE LET r == Requested(createRequests(args), failAt) IN
         [cmd |-> "create", args |-> args, results |-> <<>>,
          calls |-> r.calls, err |-> r.err, out |-> <<>>]
  /\ UNCHANGED <<shardVars, migVars, commitVars, peerVars, stopVars, repos,
                 httpFiles, fetched>>

updateCmd(args, failAt) ==
  /\ cli = NoCommand
  /\ failAt <= Len(updateRequests(args))
  /\ cli' =
       IF ~args.given THEN Rejected("update", args, "ErrInvalidParameters")
       ELSE IF args.size <= 0
         THEN Rejected("update", args, "ErrInvalidParameters")
       ELSE IF ~args.cidOk THEN Rejected("update", args, "ErrInvalidCid")
       ELSE IF ExtendInfoTooLong(args.extendInfo)
         THEN Rejected("update", args, "ErrInvalidParameters")
       ELSE LET r == Requested(updateRequests(args), failAt) IN
         [cmd |-> "update", args |-> args, results |-> <<>>,
          calls |-> r.calls, err |-> r.err, out |-> <<>>]
  /\ UNCHANGED <<shardVars, migVars, commitVars, peerVars, stopVars, repos,
                 httpFiles, fetched>>

\* A string of a renew result is the sequence of its tokens: words, and
\* "=" for the separator.
Words == {"SUCCESS", "orderId", "99"}

WordLists == UNION {[1..n -> Words] : n \in 0..MaxWords}

\* strings.Join(words, "=")
RECURSIVE Join(_)
Join(words) ==
  IF Len(words) <= 1 THEN words
  ELSE <<Head(words), "=">> \o Join(Tail(words))

\* the results the chain or the gateway can answer for one data id
RenewStrings == {Join(w) : w \in WordLists}

\* strings.Contains(result, "SUCCESS")
ContainsSuccess(str) == \E i \in 1..Len(str) : str[i] = "SUCCESS"

\* strings.Split(str, "="): the pieces between the separators, one piece
\* (the string itself) when there is no separator
RECURSIVE Split(_)
Split(str) ==
  IF \A i \in 1..Len(str) : str[i] # "="
    THEN <<str>>
  ELSE LET i == CHOOSE j \in 1..Len(str) :
                  /\ str[j] = "="
                  /\ \A l \in 1..(j - 1) : str[l] # "="
       IN <<SubSeq(str, 1, i - 1)>> \o Split(SubSeq(str, i + 1, Len(str)))

\* strconv.ParseUint(str, 10, 64)
ParseUint(str) ==
  IF str = <<"99">> THEN [err |-> FALSE, value |-> 99]
  ELSE [err |-> TRUE, value |-> 0]

\* strings.Split(result, "=")[1], parsed: the second piece
RenewedOrder(result) == ParseUint(Split(result)[2])

\* what renewCmd prints for one data id: "renewed" with the order id
\* (renewModels), "failed" (failedOrders), "info" (renewedOrders: the
\* result printed as it is)
RenewReport(result) ==
  IF ContainsSuccess(result)
    THEN IF RenewedOrder(result).err
           THEN [kind |-> "failed", orderId |-> 0]
         ELSE [kind |-> "renewed", orderId |-> RenewedOrder(result).value]
  ELSE [kind |-> "info", orderId |-> 0]

\* renewCmd: without --data-ids (ids empty) it returns an error; else
\* getSaoClient, then client.RenewOrder or client.ModelRenewOrder; a result with SUCCESS and no separator makes
\* strings.Split(result, "=")[1] an index out of range, and the command
\* panics
renewRequests(clientPublish) ==
  <<"getSaoClient",
    IF clientPublish THEN "RenewOrder" ELSE "ModelRenewOrder">>

renewCmd(ids, results, clientPublish, failAt) ==
  LET args == [NoArgs EXCEPT !.given = ids # {},
                             !.clientPublish = clientPublish]
      r == Requested(renewRequests(clientPublish), failAt)
      panics == \E d \in ids :
                  /\ ContainsSuccess(results[d])
                  /\ Len(Split(results[d])) < 2
  IN
  /\ cli = NoCommand
  /\ failAt <= Len(renewRequests(clientPublish))
  /\ cli' =
       IF ids = {} THEN Rejected("renew", args, "ErrInvalidParameters")
       ELSE IF r.err # ""
         THEN [cmd |-> "renew", args |-> args, results |-> <<>>,
               calls |-> r.calls, err |-> r.err, out |-> <<>>]
       ELSE IF panics
         THEN [cmd |-> "renew", args |-> args, results |-> results,
               calls |-> r.calls, err |-> "panic", out |-> <<>>]
       ELSE [cmd |-> "renew", args |-> args, results |-> results,
             calls |-> r.calls, err |-> "",
             out |-> [d \in ids |-> RenewReport(results[d])]]
  /\ UNCHANGED <<shardVars, migVars, commitVars, peerVars, stopVars, repos,
                 httpFiles, fetched>>

\* ------------------------------------------------------------ snode init

RepoPaths == 1..NumRepos

\* a repo directory: the config file and the keystore directory exist or
\* not, the node-address of the metadata datastore (0 when not put), and
\* the libp2p key of the keystore (0 when there is none)
NoRepo == [config |-> FALSE, keystore |-> FALSE, nodeAddress |-> 0,
           peerKey |-> 0]

\* the step of initCmd that fails: none (""), os.Stat in Repo.Exists,
\* the config file, os.Mkdir of the keystore, the metadata datastore,
\* GeneratePeerId, chain.Login
InitFailures ==
  {"", "stat", "config", "keystore", "datastore", "key", "login"}

KeystoreExistsNever(repo) == FALSE

\* os.Stat(filepath.Join(r.path, fsKeystore)) finds the keystore
KeystoreExists(repo) == repo.keystore

\* crypto.GenerateEd25519Key: a key that is not the one there was
GenerateEd25519Key(old) == IF old = 1 THEN 2 ELSE 1

\* Repo.initConfig: an existing config file is kept
initConfig(repo) == [repo EXCEPT !.config = TRUE]

\* initRepo: Repo.Exists, then Repo.Init (Repo.Exists again, initConfig,
\* initKeystore)
initRepo(repo, failAt) ==
  IF failAt = "stat" THEN [repo |-> repo, err |-> "stat"]
  ELSE IF KeystoreExists(repo)
    THEN [repo |-> repo, err |-> "already initialized"]
  ELSE IF failAt = "config" /\ ~repo.config
    THEN [repo |-> repo, err |-> "init config"]
  ELSE IF KeystoreExists(initConfig(repo))
    THEN [repo |-> initConfig(repo), err |-> "ErrRepoExists"]
  ELSE IF failAt = "keystore"
    THEN [repo |-> initConfig(repo), err |-> "mkdir"]
  ELSE [repo |-> [initConfig(repo) EXCEPT !.keystore = TRUE], err |-> ""]

\* initCmd after initRepo: the metadata datastore and its node-address,
\* GeneratePeerId (the key is written to the keystore), chain.Login
snodeInit(repo, creator, failAt) ==
  LET i == initRepo(repo, failAt)
      d == [i.repo EXCEPT !.nodeAddress = creator]
      k == [d EXCEPT !.peerKey = GenerateEd25519Key(d.peerKey)]
  IN
  IF i.err # "" THEN [repo |-> i.repo, calls |-> <<>>, err |-> i.err]
  ELSE IF failAt = "datastore"
    THEN [repo |-> i.repo, calls |-> <<>>, err |-> "datastore"]
  ELSE IF failAt = "key"
    THEN [repo |-> d, calls |-> <<>>, err |-> "make host key"]
  ELSE [repo |-> k, calls |-> <<"Login">>,
        err |-> IF failAt = "login" THEN "login" ELSE ""]

initCmd(path, creator, failAt) ==
  LET r == snodeInit(repos[path], creator, failAt) IN
  /\ repos' = [repos EXCEPT ![path] = r.repo]
  /\ cli' = [cmd |-> "init",
             args |-> [NoArgs EXCEPT !.given = TRUE, !.path = path,
                                     !.creator = creator],
             results |-> <<>>, calls |-> r.calls, err |-> r.err,
             out |-> <<>>]
  /\ UNCHANGED <<shardVars, migVars, commitVars, peerVars, stopVars,
                 httpFiles, fetched>>

\* ------------------------------------------------ GatewaySvc.FetchContent

\* the bytes of one shard
ShardContents == {<<>>, <<"a">>, <<"b">>}

\* meta.Shards: provider address -> shard, of any set of providers
ShardMaps ==
  UNION {[P -> [ShardId : 0..(NumProviders - 1), Content : ShardContents]] :
           P \in SUBSET Providers}

\* types.Model as FetchContent reads it; File is whether Alias matches
\* "^" + types.Type_Prefix_File
Models == [DataId : DataIds, File : BOOLEAN, Shards : ShardMaps]

NoContent == [exists |-> FALSE, content |-> <<>>]

NoFetch ==
  [meta |-> [DataId |-> 0, File |-> FALSE, Shards |-> <<>>],
   assembled |-> <<>>, err |-> "", Content |-> <<>>]

\* the loop over meta.Shards: contentList[shard.ShardId] is the content of
\* the first shard of that id the loop meets (first[i] is its provider),
\* and stays nil when no shard has the id
ContentList(shards, first) ==
  [i \in 0..(Cardinality(DOMAIN shards) - 1) |->
     IF \E p \in DOMAIN shards : shards[p].ShardId = i
       THEN shards[first[i]].Content
     ELSE <<>>]

\* for _, c := range contentList { content = append(content, c...) }
RECURSIVE Concat(_, _, _)
Concat(list, i, n) ==
  IF i >= n THEN <<>> ELSE list[i] \o Concat(list, i + 1, n)

\* contentList[shard.ShardId] with ShardId >= len(meta.Shards)
IndexOutOfRange(shards) ==
  \E p \in DOMAIN shards : shards[p].ShardId >= Cardinality(DOMAIN shards)

\* len(content) > gs.cfg.Cache.ContentLimit
ExceedsLimit(content) == Len(content) > ContentLimit

\* FetchResult.Content
InlineContent(content) == IF ExceedsLimit(content) THEN <<>> ELSE content

\* FetchContent(ctx, meta), called once in a behaviour: first is the order in which the loop met the
\* shards, fetchErr a failing storeManager.Get or Fetch, fileErr a failing
\* write of the file
FetchContent(meta, first, fetchErr, fileErr) ==
  LET shards == meta.Shards
      n == Cardinality(DOMAIN shards)
      content == Concat(ContentList(shards, first), 0, n)
      mirror == ExceedsLimit(content) \/ meta.File
      done(err, c) ==
        [meta |-> meta, assembled |-> IF err = "" THEN content ELSE <<>>,
         err |-> err, Content |-> c]
  IN
  /\ fetched = NoFetch
  /\ \A i \in 0..(n - 1) :
       \/ /\ first[i] \in DOMAIN shards
          /\ shards[first[i]].ShardId = i
       \/ /\ first[i] = ""
          /\ \A p \in DOMAIN shards : shards[p].ShardId # i
  /\ \/ /\ IndexOutOfRange(shards)
        /\ fetched' = done("panic", <<>>)
        /\ UNCHANGED httpFiles
     \/ /\ ~IndexOutOfRange(shards)
        /\ fetchErr
        /\ n > 0
        /\ fetched' = done("fetch", <<>>)
        /\ UNCHANGED httpFiles
     \/ /\ ~IndexOutOfRange(shards)
        /\ ~fetchErr
        /\ mirror
        /\ fileErr
        /\ fetched' = done("file", <<>>)
        /\ httpFiles' =
             [httpFiles EXCEPT ![meta.DataId] =
                [exists |-> TRUE, content |-> <<>>]]
     \/ /\ ~IndexOutOfRange(shards)
        /\ ~fetchErr
        /\ ~(mirror /\ fileErr)
        /\ fetched' = done("", InlineContent(content))
        /\ httpFiles' =
             IF mirror
               THEN [httpFiles EXCEPT ![meta.DataId] =
                       [exists |-> TRUE, content |-> content]]
             ELSE httpFiles
  /\ UNCHANGED <<shardVars, migVars, commitVars, peerVars, stopVars, cli,
                 repos>>

\* ---------------------------------------------------- the specification

\* a renew order is for content the provider may already hold
StoreFor(o) ==
  [k \in Keys |-> IF o[k].Operation = "3" THEN {"none", "good"} ELSE {"none"}]

InitNode ==
  /\ alive = TRUE
  /\ restarts = 0
  /\ calls = 0
  /\ height = 1
  /\ ds = [k \in Keys |-> EmptyShard]
  /\ shardIndex = <<>>
  /\ handlers = DeadHandlers
  /\ replayPc = "start"
  /\ pendings = <<>>
  /\ wpc = "idle"
  /\ wtask = EmptyShard
  /\ completeCount = [k \in Keys |-> 0]
  /\ lastNotify = [k \in Keys |-> NoNotify]
  /\ mismatches = [k \in Keys |-> 0]
  /\ migrateDs = [d \in DataIds |-> NoMigrate]
  /\ migrateIndex = <<>>
  /\ migrator = IdleMigrator
  /\ mpc = "idle"
  /\ mreq = NoRequest
  /\ mresp = NoAnswers
  /\ minfo = NoMigrate
  /\ staging = [path \in Paths |-> NoFile]
  /\ commits = [c \in Callers |-> IdleCommit]
  /\ mhandlers = [p \in Procs |-> IdleMigrateHandler]
  /\ lhandlers = [p \in Procs |-> IdleLoadHandler]
  /\ assignResp = [p \in Assigners |-> NoAssignResp]
  /\ cli = NoCommand
  /\ repos = [r \in RepoPaths |-> NoRepo]
  /\ httpFiles = [d \in DataIds |-> NoContent]
  /\ fetched = NoFetch
  /\ closed = FALSE
  /\ ctxDone = FALSE

\* the orders and the store content a node can start with
InitOrders(expires) ==
  /\ orders \in [Keys -> [Operation : Operations, Expire : expires]]
  /\ \E s \in [Keys -> {"none", "good"}] :
       /\ \A k \in Keys : s[k] \in StoreFor(orders)[k]
       /\ store = s

Init ==
  /\ env = "any"
  /\ InitOrders(Expires)
  /\ InitNode

Next ==
  \/ \E p \in Procs, k \in Keys : HandleShardAssign(p, k)
  \/ \E p \in Procs : SaveShardHas(p)
  \/ \E p \in Procs : SaveShardPut(p)
  \/ \E p \in Procs : UpdateShardIndexGet(p)
  \/ \E p \in Procs : UpdateShardIndexPut(p)
  \/ \E p \in Procs, k \in Keys : ShardFix(p, k)
  \/ processIncompleteShards
  \/ \E p \in Procs : StartFromHandler(p)
  \/ StartFromReplay
  \/ ProcessLoad
  \/ ProcessComplete
  \/ ProcessNotify
  \/ Tick
  \/ Crash
  \/ Restart

Spec == Init /\ [][Next]_vars

\* every ShardLoad answers content of another cid; all else succeeds
InitBadCid ==
  /\ env = "badcid"
  /\ InitOrders(Expires)
  /\ InitNode

SpecBadCid == InitBadCid /\ [][Next]_vars

\* chain and gateway answer every request successfully, no order expires
\* (Expire is 0 or a height the chain does not pass), a renew order is for
\* content the provider holds, and the node is not killed
InitLive ==
  /\ env = "good"
  /\ orders \in [Keys -> [Operation : Operations, Expire : {0, MaxHeight}]]
  /\ store = [k \in Keys |-> IF orders[k].Operation = "3" THEN "good"
                                ELSE "none"]
  /\ InitNode

NextLive ==
  \/ \E p \in Procs, k \in Keys : HandleShardAssign(p, k)
  \/ \E p \in Procs : SaveShardHas(p)
  \/ \E p \in Procs : SaveShardPut(p)
  \/ \E p \in Procs : UpdateShardIndexGet(p)
  \/ \E p \in Procs : UpdateShardIndexPut(p)
  \/ \E p \in Procs, k \in Keys : ShardFix(p, k)
  \/ processIncompleteShards
  \/ \E p \in Procs : StartFromHandler(p)
  \/ ProcessLoad
  \/ ProcessComplete
  \/ ProcessNotify
  \/ Tick

\* the Go scheduler runs every goroutine that can take a step, and in this
\* environment every request returns
FairLive ==
  /\ \A p \in Procs : WF_vars(SaveShardHas(p))
  /\ \A p \in Procs : WF_vars(SaveShardPut(p))
  /\ \A p \in Procs : WF_vars(UpdateShardIndexGet(p))
  /\ \A p \in Procs : WF_vars(UpdateShardIndexPut(p))
  /\ WF_vars(\E p \in Procs : StartFromHandler(p))
  /\ WF_vars(ProcessLoad)
  /\ WF_vars(ProcessComplete)
  /\ WF_vars(ProcessNotify)

SpecLive == InitLive /\ [][NextLive]_vars /\ FairLive

\* the migration engine and the gateway's commits, the provider's shard
\* engine being idle
InitOutside ==
  /\ env = "any"
  /\ orders = [k \in Keys |-> [Operation |-> "1", Expire |-> 0]]
  /\ store = [k \in Keys |-> "none"]
  /\ InitNode

NextMigrate ==
  \/ \E ids \in SUBSET DataIds, okIds \in SUBSET DataIds : Migrate(ids, okIds)
  \/ \E dataId \in DataIds : MigrateSave(dataId)
  \/ \E found \in BOOLEAN : MigrateResolve(found)
  \/ \E storeErr \in BOOLEAN : StartMigrate(storeErr)
  \/ \E a \in MigrateAnswers : ProcessMigrateRequest(a)
  \/ ProcessMigrateGet
  \/ ProcessMigratePut

SpecMigrate == InitOutside /\ [][NextMigrate]_vars

\* the gateway's CommitModel calls
NextCommit ==
  \/ \E c \in Callers, path \in Paths, orderId \in 0..MaxOrderId,
        ok \in BOOLEAN : CommitModel(c, path, orderId, ok)
  \/ \E c \in Callers, orderId \in OrderIds : renewModel(c, orderId)
  \/ \E c \in Callers, ok \in BOOLEAN, id \in OrderIds : CommitTx(c, ok, id)
  \/ \E c \in Callers, ok \in BOOLEAN : CommitSubscribe(c, ok)
  \/ \E c \in Callers, cause \in WaitCauses : CommitWait(c, cause)
  \/ \E c \in Callers : SubscriptionSends(c)
  \/ \E c \in Callers, ok \in BOOLEAN : CommitUnsubscribe(c, ok)
  \/ \E c \in Callers, ok \in BOOLEAN : CommitUnstage(c, ok)
  \/ \E c \in Callers, ok \in BOOLEAN : CommitQuery(c, ok)
  \/ \E c \in Callers : CommitEnd(c)

SpecCommit == InitOutside /\ [][NextCommit]_vars

\* shard-assign requests served concurrently, by a node that can be killed
\* and restarted, chain and gateway answering every request successfully
InitIndex ==
  /\ env = "good"
  /\ InitOrders({0})
  /\ InitNode

NextIndex ==
  \/ \E p \in Assigners, k \in Keys : HandleShardAssign(p, k)
  \/ \E p \in Assigners : SaveShardHas(p)
  \/ \E p \in Assigners : SaveShardPut(p)
  \/ \E p \in Assigners : UpdateShardIndexGet(p)
  \/ \E p \in Assigners : UpdateShardIndexPut(p)
  \/ processIncompleteShards
  \/ \E p \in Assigners : StartFromHandler(p)
  \/ StartFromReplay
  \/ ProcessLoad
  \/ ProcessComplete
  \/ ProcessNotify
  \/ Crash
  \/ Restart

SpecIndex == InitIndex /\ [][NextIndex]_vars

\* the provider as the receiver of migrated shards
NextPeer ==
  \/ \E p \in Procs, req \in MigrateReqs, a \in MigrateChecks :
       HandleShardMigrate(p, req, a)
  \/ \E p \in Procs, ok \in BOOLEAN : HandleShardMigrateStore(p, ok)
  \/ \E p \in Procs, ok \in BOOLEAN : HandleShardMigrateComplete(p, ok)
  \/ \E p \in Procs : HandleShardMigrateEnd(p)

SpecPeer == InitOutside /\ [][NextPeer]_vars

\* the provider serving shard loads, from a store that holds content for
\* some of the cids
InitLoad ==
  /\ env = "any"
  /\ orders = [k \in Keys |-> [Operation |-> "1", Expire |-> 0]]
  /\ store \in [Keys -> {"none", "good"}]
  /\ InitNode

NextLoad ==
  \/ \E p \in Procs, req \in LoadReqs, a \in LoadAnswerSet :
       HandleShardLoad(p, req, a)
  \/ \E p \in Procs : HandleShardLoadEnd(p)
  \/ Tick

SpecLoad == InitLoad /\ [][NextLoad]_vars

\* the client commands create, update and renew
NextCli ==
  \/ \E args \in {a \in CmdArgs : a.size = 1 /\ a.cidOk} :
       \E failAt \in 0..Len(createRequests(args)) : createCmd(args, failAt)
  \/ \E args \in CmdArgs : \E failAt \in 0..Len(updateRequests(args)) :
       updateCmd(args, failAt)
  \/ \E ids \in SUBSET DataIds, clientPublish \in BOOLEAN :
       \E results \in [ids -> RenewStrings] :
         \E failAt \in 0..Len(renewRequests(clientPublish)) :
           renewCmd(ids, results, clientPublish, failAt)

SpecCli == InitOutside /\ [][NextCli]_vars

\* snode init, run any number of times on the repo paths
NextRepo ==
  \E path \in RepoPaths, creator \in Callers, failAt \in InitFailures :
    initCmd(path, creator, failAt)

SpecRepo == InitOutside /\ [][NextRepo]_vars

\* the gateway's FetchContent
NextFetch ==
  \E meta \in Models, fetchErr \in BOOLEAN, fileErr \in BOOLEAN :
    \E first \in [0..(Cardinality(DOMAIN meta.Shards) - 1) ->
                    Providers \cup {""}] :
      FetchContent(meta, first, fetchErr, fileErr)

SpecFetch == InitOutside /\ [][NextFetch]_vars

\* the shard engine with Stop and the cancellation of Start's context, in
\* the environment of InitLive
NextStop ==
  \/ \E p \in Procs, k \in Keys : HandleShardAssign(p, k)
  \/ \E p \in Procs : SaveShardHas(p)
  \/ \E p \in Procs : SaveShardPut(p)
  \/ \E p \in Procs : UpdateShardIndexGet(p)
  \/ \E p \in Procs : UpdateShardIndexPut(p)
  \/ \E p \in Procs, k \in Keys : ShardFix(p, k)
  \/ processIncompleteShards
  \/ \E p \in Procs : StartFromHandler(p)
  \/ StartFromReplay
  \/ ProcessLoad
  \/ ProcessComplete
  \/ ProcessNotify
  \/ Stop
  \/ Cancel
  \/ SendOnClosed
  \/ StartReturns
  \/ Crash
  \/ Restart

\* the scheduler runs the worker when it can take a step, every request
\* of an attempt returns, and a select with several ready cases takes
\* each of them sooner or later (it chooses uniformly at random)
FairStop ==
  /\ WF_vars(ProcessLoad)
  /\ WF_vars(ProcessComplete)
  /\ WF_vars(ProcessNotify)
  /\ SF_vars(StartReturns)

SpecStop == InitLive /\ [][NextStop]_vars /\ FairStop

\* the shard engine of a node that ends only by a panic of its own
NextNoKill ==
  \/ \E p \in Procs, k \in Keys : HandleShardAssign(p, k)
  \/ \E p \in Procs : SaveShardHas(p)
  \/ \E p \in Procs : SaveShardPut(p)
  \/ \E p \in Procs : UpdateShardIndexGet(p)
  \/ \E p \in Procs : UpdateShardIndexPut(p)
  \/ \E p \in Procs, k \in Keys : ShardFix(p, k)
  \/ processIncompleteShards
  \/ \E p \in Procs : StartFromHandler(p)
  \/ StartFromReplay
  \/ ProcessLoad
  \/ ProcessComplete
  \/ ProcessNotify
  \/ Tick
  \/ Restart

SpecNoKill == Init /\ [][NextNoKill]_vars

\* HandleShardAssign with its checks, and the worker, in the environment
\* of InitIndex
NextAssign ==
  \/ \E p \in Procs, req \in AssignReqs, a \in AssignAnswers :
       HandleShardAssignReq(p, req, a)
  \/ \E p \in Procs : SaveShardHas(p)
  \/ \E p \in Procs : SaveShardPut(p)
  \/ \E p \in Procs : UpdateShardIndexGet(p)
  \/ \E p \in Procs : UpdateShardIndexPut(p)
  \/ \E p \in Procs : StartFromHandler(p)
  \/ ProcessLoad
  \/ ProcessComplete
  \/ ProcessNotify

SpecAssign == InitIndex /\ [][NextAssign]_vars

\* ------------------------------------------------------------ the claims

\* the goroutines blocked in a send of key k on the task channel
SendersOf(k) ==
  {p \in Assigners : handlers[p].pc = "blocked" /\ handlers[p].task.k = k}

ReplaySends(k) == pendings # <<>> /\ Head(pendings).k = k

InIndex(k) == \E i \in 1..Len(shardIndex) : shardIndex[i] = k

\* C1: the persisted State of a shard record never decreases, whatever the
\* interleaving of HandleShardAssign, ShardFix, restart replay and the
\* worker's processing of the queued copies.
C1_StateNeverDecreases ==
  [][\A k \in Keys : Has(ds, k) => ds'[k].State >= ds[k].State]_vars

\* C2: the persisted Tries of every shard record is at most MAX_RETRIES.
C2_TriesAtMostMaxRetries ==
  \A k \in Keys : ds[k].Tries <= MAX_RETRIES

\* a record that used up its retries and was terminated for it
C2_Witness ==
  \E k \in Keys : /\ ds[k].Tries = MAX_RETRIES
                  /\ ds[k].State = ShardStateTerminate
                  /\ ds[k].LastErr = "retries"

\* C3: restart replay puts on the task queue exactly the records of the
\* shard index whose persisted State is neither Complete nor Terminate:
\* the list it reads at start-up holds those records and no other, and it
\* hands the list to the worker one record at a time, dropping none.
C3_ReplayExactlyPending ==
  [][/\ (replayPc = "start" /\ replayPc' = "send") =>
          /\ {pendings'[i].k : i \in 1..Len(pendings')} =
               {k \in Keys : /\ InIndex(k)
                             /\ ds[k].State # ShardStateComplete
                             /\ ds[k].State # ShardStateTerminate}
          /\ \A i \in 1..Len(pendings') : pendings'[i] = ds[pendings'[i].k]
     /\ (alive' /\ replayPc = "send" /\ pendings' # pendings) =>
          /\ pendings # <<>>
          /\ pendings' = Tail(pendings)
          /\ wpc = "idle"]_vars

\* after a restart, replay holds a pending record for the worker
C3_Witness ==
  /\ restarts > 0
  /\ replayPc = "send"
  /\ pendings # <<>>

\* C4: a shard whose persisted State is Terminate is never placed on the
\* task queue by HandleShardAssign or by restart replay.
C4_TerminateNeverEnqueued ==
  [][/\ \A p \in Assigners :
          (/\ handlers[p].pc # "blocked"
           /\ handlers'[p].pc = "blocked"
           /\ handlers'[p].src = "assign") =>
             ds'[handlers'[p].task.k].State # ShardStateTerminate
     /\ (pendings' # <<>> /\ pendings' # pendings) =>
             ds'[Head(pendings').k].State # ShardStateTerminate]_vars

\* C5: when every ShardLoad of a shard is answered with content of another
\* cid, then after the third such attempt the persisted State is Terminate
\* and the persisted LastErr contains "ipfs cid" (and the content was never
\* stored, nor MsgComplete submitted).
C5_MismatchEndsInTerminate ==
  \A k \in Keys :
    (env = "badcid" /\ mismatches[k] >= MAX_RETRIES) =>
      /\ ds[k].State = ShardStateTerminate
      /\ ds[k].LastErr = "ipfs cid"
      /\ store[k] = "none"
      /\ completeCount[k] = 0

\* C6: after an attempt fails while Tries < MAX_RETRIES, LastErr is on the
\* persisted record and the shard is on the task queue again.
C6_FailedAttemptRequeued ==
  [][\A k \in Keys :
       (/\ alive'
        /\ wpc \in {"load", "complete"}
        /\ wtask.k = k
        /\ wpc' = "idle") =>
          /\ ds'[k].LastErr # ""
          /\ (SendersOf(k) # {} \/ ReplaySends(k))']_vars

\* the first acceptance of a shard by HandleShardAssign
Accepted(k) ==
  \E p \in Assigners : /\ handlers[p].src = "assign"
                   /\ handlers[p].task.k = k

\* the record is Complete with the hash of a MsgComplete the chain took,
\* and the gateway was sent that hash and height
CompleteAndNotified(k) ==
  /\ ds[k].State = ShardStateComplete
  /\ completeCount[k] > 0
  /\ ds[k].CompleteHash \in 1..completeCount[k]
  /\ lastNotify[k] = [TxHash |-> ds[k].CompleteHash,
                      Height |-> ds[k].CompleteHeight]

C8_CompleteHasHash ==
  \A k \in Keys :
    ds[k].State = ShardStateComplete => ds[k].CompleteHash # 0

C8_Witness ==
  \E k \in Keys : ds[k].State = ShardStateComplete /\ ds[k].Tries > 1

\* C9: when CommitModel returns success, no content is staged for the
\* (Owner, Cid) of its proposal.
C9_SuccessLeavesNothingStaged ==
  [][\A c \in Callers :
       (/\ commits[c].op = "commit"
        /\ commits[c].pc = "query"
        /\ commits'[c].pc = "done"
        /\ commits'[c].result = "ok") =>
          staging'[commits[c].path] = NoFile]_vars

\* C10: the migrate worker writes a MigrateInfo in State Complete only in
\* the attempt for its data id whose answers were Code 0 from the new
\* provider, result code 0 for the completion transaction, and an order
\* shard entry of ToProvider with From this provider and Status Completed,
\* and it writes the CompleteHash and CompleteHeight of that answer; an
\* attempt that fails a check leaves every MigrateInfo as it is.
C10_CompleteOnlyAfterChecks ==
  [][/\ \A d \in DataIds :
          (/\ migrateDs'[d].State = MigrateStateComplete
           /\ migrateDs'[d] # migrateDs[d]) =>
             /\ mpc = "put"
             /\ mreq.DataId = d
             /\ mresp.Code = 0
             /\ mresp.TxCode = 0
             /\ mresp.exists
             /\ mresp.From = Self
             /\ mresp.Status = ShardCompleted
             /\ migrateDs'[d].CompleteTxHash = mresp.CompleteHash
             /\ migrateDs'[d].CompleteTxHeight = mresp.CompleteHeight
     /\ (mpc = "request" /\ mpc' = "idle") => migrateDs' = migrateDs]_vars

\* a migration the worker completed, and one it left in TxSent
C10_Witness ==
  \E d, e \in DataIds :
    /\ migrateDs[d].State = MigrateStateComplete
    /\ migrateDs[d].CompleteTxHash # 0
    /\ migrateDs[e] # NoMigrate
    /\ migrateDs[e].State = MigrateStateTxSent
    /\ migrator.pc = "idle"
    /\ mpc = "idle"


\* the checks of HandleShardMigrate, on what the chain answered
MigrateChecksPass(h) ==
  /\ h.ans.TxCode = 0
  /\ h.ans.result = "SUCCESS"
  /\ h.ans.exists
  /\ h.ans.From = h.req.MigrateFrom
  /\ h.ans.Cid = h.req.Cid
  /\ h.ans.Status = ShardWaiting

\* C11: HandleShardMigrate returns Code 0, with the hash and height of its
\* MsgComplete, only when the MsgMigrate result of req.DataId is SUCCESS
\* and the order's shard entry of this provider has From = req.MigrateFrom,
\* Cid = req.Cid and Status = Waiting; when a check fails it returns a
\* non-zero Code, and the call neither wrote to the shard store nor
\* submitted MsgComplete.
C11_MigrateChecked ==
  [][\A p \in Procs :
       (mhandlers[p].pc # "done" /\ mhandlers'[p].pc = "done") =>
         LET h == mhandlers'[p] IN
         /\ h.resp.Code = 0 =>
              /\ MigrateChecksPass(h)
              /\ h.resp.CompleteHash # 0
              /\ h.resp.CompleteHeight # 0
              /\ mhandlers[p].pc = "complete"
              /\ completeCount'[h.req.Cid] > 0
              /\ store'[h.req.Cid] # "none"
         /\ ~ MigrateChecksPass(h) =>
              /\ h.resp.Code # 0
              /\ mhandlers[p].pc = "idle"
              /\ store' = store
              /\ completeCount' = completeCount]_vars

\* a migration the handler accepted, and then one it refused for the
\* status of the shard entry
C11_Witness ==
  \E p \in Procs :
    /\ mhandlers[p].pc = "done"
    /\ mhandlers[p].resp.Code # 0
    /\ mhandlers[p].ans.result = "SUCCESS"
    /\ mhandlers[p].ans.Status # ShardWaiting
    /\ completeCount[mhandlers[p].req.Cid] > 0


\* a HandleShardLoad that returned the bytes of the shard
Served(h) == h.pc = "done" /\ h.resp.Content # ""

\* C12: HandleShardLoad returns shard bytes only to the gateway of the
\* proposal, or to a peer named by a relay proposal whose signature
\* verifies under the public key of the relay node; a non-gateway peer
\* with a relay proposal whose signature does not verify gets a non-zero
\* Code and no Content.
C12_LoadOnlyForGatewayOrRelay ==
  \A p \in Procs :
    LET h == lhandlers[p] IN
    /\ Served(h) =>
         \/ h.req.FromGateway
         \/ h.req.RelayNamesPeer /\ h.req.RelaySig = "valid"
    /\ (/\ h.pc = "done"
        /\ ~ h.req.FromGateway
        /\ h.req.RelaySig = "invalid") =>
          h.resp.Code # 0 /\ h.resp.Content = ""

\* C13: HandleShardLoad does not verify a JWS for a query proposal of
\* Owner "all", which the client builds unsigned: it serves the request
\* when the peer, LastValidHeight and the read of the store pass.
C13_PublicQueryServed ==
  \A p \in Procs :
    LET h == lhandlers[p] IN
    (/\ h.pc = "done"
     /\ h.req.Owner = "all"
     /\ h.req.Jws = "none"
     /\ h.req.FromGateway
     /\ ~ h.ans.heightErr
     /\ h.req.LastValidHeight >= h.lastHeight
     /\ h.content # "none"
     /\ ~ h.ans.readErr) =>
       h.resp.Code = 0 /\ h.resp.Content = h.content

\* the checks of HandleShardLoad other than the one on LastValidHeight
\* pass for a request that was answered
OtherLoadChecksPass(h) ==
  /\ VerifiesJWS(h.req, h.ans)
  /\ PeerAccepted(h.req, h.ans)
  /\ ~ h.ans.heightErr
  /\ ~ h.ans.readErr
  /\ h.content # "none"

\* C14: HandleShardLoad rejects, with a non-zero Code and no Content,
\* every request whose LastValidHeight is less than the height of the
\* chain, and a request whose LastValidHeight is at least that height is
\* served when its other checks pass.
C14_LastValidHeightChecked ==
  \A p \in Procs :
    LET h == lhandlers[p] IN
    h.pc = "done" =>
      /\ h.req.LastValidHeight < h.lastHeight =>
           h.resp.Code # 0 /\ h.resp.Content = ""
      /\ (h.req.LastValidHeight >= h.lastHeight /\ OtherLoadChecksPass(h))
           => h.resp.Code = 0 /\ h.resp.Content = h.content

\* a request served at the last height its proposal is valid for, the
\* chain having moved on
C14_Witness ==
  \E p \in Procs :
    /\ Served(lhandlers[p])
    /\ lhandlers[p].req.LastValidHeight = lhandlers[p].lastHeight
    /\ lhandlers[p].lastHeight > 1


\* the number of entries of the shard index for key k
IndexCount(k) ==
  Cardinality({i \in 1..Len(shardIndex) : shardIndex[i] = k})

\* C15: whatever the interleaving of the SaveShard calls of concurrent
\* HandleShardAssign handlers and of the worker, each shard key is in the
\* shard index at most once.
C15_IndexKeysUnique ==
  \A k \in Keys : IndexCount(k) <= 1

\* no SaveShard is between its write of the record and its write of the
\* index
NoSaveShardInFlight ==
  \A p \in Assigners : handlers[p].pc \notin {"idxr", "idxw"}

\* C16: every shard record of the durable store has its key in the shard
\* index, once the SaveShard calls in flight have returned or the process
\* was killed.
C16_RecordsAreIndexed ==
  NoSaveShardInFlight => \A k \in Keys : Has(ds, k) => InIndex(k)


\* the number of entries of the migrate index for a data id
MigrateIndexCount(d) ==
  Cardinality({i \in 1..Len(migrateIndex) : migrateIndex[i] = d})

\* C17: when Migrate is done with a data id whose MsgMigrate result is
\* SUCCESS, there is one MigrateInfo record of it, in State TxSent, with
\* one entry in the migrate index, and one MigrateRequest for it is on its
\* way to the worker; Migrate writes no record of a data id whose result
\* is not SUCCESS.
C17_MigrateRecordsAndEnqueues ==
  [][/\ (migrator.pc = "resolve" /\ migrator'.pc # "resolve") =>
          LET d == migrator.req.DataId IN
          /\ migrateDs'[d].DataId = d
          /\ migrateDs'[d].State = MigrateStateTxSent
          /\ MigrateIndexCount(d)' = 1
          /\ migrator'.pc = "blocked"
          /\ migrator'.req.DataId = d
     /\ \A d \in DataIds :
          (migrateDs'[d] # migrateDs[d] /\ migrator' # migrator) =>
             d \in migrator.todo]_vars


\* C18: the task queue is unbounded: no goroutine that sends a shard to
\* it (HandleShardAssign, ShardFix, restart replay) is held in its send
\* while the worker is in the middle of an attempt.
C18_SendersNeverWait ==
  wpc # "idle" =>
    /\ \A p \in Assigners : handlers[p].pc # "blocked"
    /\ ~ (replayPc = "send" /\ pendings # <<>>)

\* a CommitModel call that has staged its content and waits for its order
Waits(c) ==
  commits[c].op = "commit" /\ commits[c].pc \in {"tx", "subscribe", "wait"}

\* C19: the staging path of an (Owner, Cid) belongs to one outstanding
\* CommitModel call: while a call waits for its order, no other call
\* writes over the file it staged, and no other call's unstage removes it.
C19_StagingPathOwned ==
  [][\A c \in Callers :
       (/\ Waits(c)
        /\ commits'[c] = commits[c]
        /\ staging[commits[c].path] # NoFile) =>
          staging'[commits[c].path] = staging[commits[c].path]]_vars

\* C20: when the worker receives from ShardFix a shard whose persisted
\* State is Terminate, it resumes the shard: it starts an attempt on it
\* (it goes on to a step of process, or saves the record of the attempt).
C20_ShardFixResumes ==
  [][\A p \in Assigners :
       (/\ handlers[p].pc = "blocked"
        /\ handlers[p].src = "fix"
        /\ handlers[p].task.State = ShardStateTerminate
        /\ ds[handlers[p].task.k].State = ShardStateTerminate
        /\ handlers'[p].pc = "idle"
        /\ alive') =>
          \/ wpc' # "idle"
          \/ ds'[handlers[p].task.k] # ds[handlers[p].task.k]]_vars


\* the last command is a create or an update
CreateOrUpdate == cli.cmd \in {"create", "update"}

\* the checks createCmd and updateCmd make before the one of extend-info
EarlierChecksPass ==
  /\ cli.args.given
  /\ cli.cmd = "update" => cli.args.size > 0 /\ cli.args.cidOk

\* C21: create and update reject a proposal whose Duration, Timeout (delay)
\* or Replica is not greater than 0, before anything is sent to the chain
\* or the gateway.
C21_RangeChecked ==
  /\ CreateOrUpdate
  /\ \/ cli.args.duration <= 0
     \/ cli.args.delay <= 0
     \/ cli.args.replica <= 0
  => /\ cli.err # ""
     /\ cli.calls = <<>>

\* C22: create and update reject an extend-info longer than 1024 bytes
\* before creating a client or contacting the chain or the gateway, with
\* InvalidParameters when the parameters checked before it are valid, and
\* take an extend-info of up to 1024 bytes on to the client.
C22_ExtendInfoChecked ==
  CreateOrUpdate =>
    /\ cli.args.extendInfo > ExtendInfoLimit =>
         /\ cli.err # ""
         /\ cli.calls = <<>>
         /\ EarlierChecksPass => cli.err = "ErrInvalidParameters"
    /\ cli.args.extendInfo <= ExtendInfoLimit /\ EarlierChecksPass =>
         /\ cli.calls # <<>>
         /\ cli.err # "ErrInvalidParameters"

\* an update with an extend-info of exactly 1024 bytes went through
C22_Witness ==
  /\ cli.cmd = "update"
  /\ cli.args.extendInfo = ExtendInfoLimit
  /\ cli.err = ""
  /\ cli.calls[Len(cli.calls)] = "ModelUpdate"

\* C23: renew reports a result SUCCESS=orderId=<n> for a data id as a
\* successful renewal of that data id with order id <n>, not as a failure.
C23_RenewSuccessReported ==
  /\ cli.cmd = "renew"
  /\ cli.err = ""
  => \A d \in DOMAIN cli.results :
       cli.results[d] = Join(<<"SUCCESS", "orderId", "99">>) =>
         cli.out[d] = [kind |-> "renewed", orderId |-> 99]

\* C24: snode init on a repo path that is already initialised fails with an
\* error, leaves the repo unchanged, generates no peer key and sends no
\* transaction to the chain.
C24_InitKeepsRepo ==
  [][\A path \in RepoPaths :
       /\ repos[path].keystore
       /\ cli'.cmd = "init"
       /\ cli'.args.path = path
       => /\ cli'.err # ""
          /\ repos'[path] = repos[path]
          /\ cli'.calls = <<>>]_vars

\* init was run on a repo that held a key, and failed
C24_Witness ==
  /\ cli.cmd = "init"
  /\ cli.err = "already initialized"
  /\ repos[cli.args.path].peerKey # 0

\* C25: when the assembled content exceeds the content limit or the alias
\* matches the File prefix, FetchContent mirrors the content to the HTTP
\* file-server path and returns an empty inline Content; otherwise it
\* returns the assembled bytes.
C25_InlineOrMirrored ==
  /\ fetched # NoFetch
  /\ fetched.err = ""
  => IF Len(fetched.assembled) > ContentLimit \/ fetched.meta.File
       THEN /\ httpFiles[fetched.meta.DataId] =
                 [exists |-> TRUE, content |-> fetched.assembled]
            /\ fetched.Content = <<>>
     ELSE fetched.Content = fetched.assembled


\* the worker submits MsgComplete for key k in this step (process, lines
\* 645-655: CompleteOrder returned the hash)
SubmitsComplete(k) ==
  /\ wpc = "complete"
  /\ wpc' = "notify"
  /\ wtask.k = k

\* C26: for one shard (OrderId, Cid), MsgComplete is submitted to the chain
\* at most once, over any sequence of processing attempts, duplicate
\* HandleShardAssign deliveries, ShardFix calls, and crashes followed by
\* restart replay.
C26_CompleteSubmittedOnce ==
  [][\A k \in Keys : SubmitsComplete(k) => completeCount[k] = 0]_vars

\* C27: once the persisted State of a shard is Complete, no later
\* processing of the shard changes it to Terminate.
C27_CompleteIsTerminal ==
  [][\A k \in Keys :
       ds[k].State = ShardStateComplete =>
         ds'[k].State # ShardStateTerminate]_vars


\* a goroutine is at its send on the task channel: a handler
\* (HandleShardAssign, ShardFix) or processIncompleteShards
AtSend ==
  \/ \E p \in Assigners : handlers[p].pc = "blocked"
  \/ replayPc = "send" /\ pendings # <<>>

\* C28: no shard is sent on the task queue after Stop has closed it: a
\* HandleShardAssign, ShardFix or restart replay that races with or follows
\* Stop never performs a send on the closed queue.
C28_NoSendOnClosedQueue == alive /\ closed => ~AtSend

C30_StoreHoldsOwnCid == \A k \in Keys : store[k] # "bad"


\* C31: within one processing attempt, MsgComplete is submitted only once
\* the content is in the local shard store and the task is in State Stored,
\* and the ShardComplete notification is sent only after MsgComplete
\* succeeded, with the hash and the height of that transaction.
C31_StepsInOrder ==
  [][/\ wpc = "complete" =>
          /\ wtask.State = ShardStateStored
          /\ store[wtask.k] # "none"
     /\ wpc = "notify" =>
          /\ wtask.State = ShardStateComplete
          /\ completeCount[wtask.k] > 0
          /\ wtask.CompleteHash \in 1..completeCount[wtask.k]
          /\ wtask.CompleteHeight \in 1..height
     /\ SubmitsComplete(wtask.k) =>
          /\ wtask'.CompleteHash = completeCount'[wtask.k]
          /\ wtask'.CompleteHeight = height
     /\ lastNotify' # lastNotify =>
          /\ wpc = "notify"
          /\ lastNotify'[wtask.k] =
               [TxHash |-> wtask.CompleteHash,
                Height |-> wtask.CompleteHeight]]_vars

\* an attempt went through load, MsgComplete and the notification for a
\* shard that was not a renew
C31_Witness ==
  \E k \in Keys :
    /\ orders[k].Operation = "1"
    /\ store[k] = "good"
    /\ ds[k].State = ShardStateComplete
    /\ ds[k].Tries = 1
    /\ lastNotify[k] = [TxHash |-> ds[k].CompleteHash,
                        Height |-> ds[k].CompleteHeight]


\* the worker receives the copy t in this step, and an attempt starts
Receives(t) ==
  /\ alive'
  /\ wpc = "idle"
  /\ \/ \E p \in Assigners : /\ handlers[p].pc = "blocked"
                             /\ handlers[p].task = t
                             /\ handlers'[p].pc = "idle"
     \/ /\ pendings # <<>>
        /\ Head(pendings) = t
        /\ pendings' = Tail(pendings)

\* the chain height has passed the ExpireHeight of the copy
PastExpire(t) == t.ExpireHeight > 0 /\ height > t.ExpireHeight

\* the attempt ends at once with the record terminated as expired
TerminatedAsExpired(t) ==
  /\ ds'[t.k].State = ShardStateTerminate
  /\ ds'[t.k].LastErr = "expired"
  /\ ds'[t.k].Tries = t.Tries + 1

\* the attempt sends no ShardLoad, MsgComplete or ShardComplete
SendsNothing ==
  /\ wpc' = "idle"
  /\ UNCHANGED <<store, completeCount, lastNotify>>

\* C32: if a shard has ExpireHeight > 0 and the chain height is greater
\* than ExpireHeight when an attempt starts, the attempt persists State
\* Terminate, fails with ErrExpiredOrder and sends no ShardLoad, MsgComplete
\* or ShardComplete; a shard with ExpireHeight 0 or with height <=
\* ExpireHeight is not terminated on this ground.
C32_ExpiredTerminates ==
  [][\A k \in Keys : \A t \in {ds[k]} \cup {handlers[p].task : p \in Assigners}
                           \cup {pendings[i] : i \in 1..Len(pendings)} :
       Receives(t) =>
         IF PastExpire(t) THEN TerminatedAsExpired(t) /\ SendsNothing
         ELSE ~(ds'[t.k] # ds[t.k] /\ ds'[t.k].LastErr = "expired")]_vars

\* C32 as the code has it: the copy is not in State Terminate, it has
\* retries left, and the height is known (GetLastHeight answered; when it
\* fails the attempt ends with nothing written).
C32_ExpiredTerminatesAtCheck ==
  [][\A k \in Keys : \A t \in {ds[k]} \cup {handlers[p].task : p \in Assigners}
                           \cup {pendings[i] : i \in 1..Len(pendings)} :
       Receives(t) /\ ~SkipsTask(t) /\ t.Tries + 1 < MAX_RETRIES =>
         IF PastExpire(t)
           THEN /\ SendsNothing
                /\ TerminatedAsExpired(t) \/ UNCHANGED ds
         ELSE ~(ds'[t.k] # ds[t.k] /\ ds'[t.k].LastErr = "expired")]_vars

\* a record terminated as expired on its first attempt
C32_Witness ==
  \E k \in Keys :
    /\ ds[k].State = ShardStateTerminate
    /\ ds[k].LastErr = "expired"
    /\ ds[k].Tries = 1
    /\ height > ds[k].ExpireHeight


\* the worker ends the notification of key k in this step
Notifies(k) ==
  /\ alive'
  /\ wpc = "notify"
  /\ wpc' = "idle"
  /\ wtask.k = k

\* C33: when the gateway answers the ShardComplete notification with a
\* non-zero Code, the response is recorded as LastErr on the persisted
\* record while State stays Complete and CompleteHash and CompleteHeight
\* are unchanged.
C33_NotifyErrorKeepsComplete ==
  [][\A k \in Keys :
       Notifies(k) /\ ds[k].State = ShardStateComplete /\ ds'[k] # ds[k] =>
         /\ ds'[k].LastErr = "resp"
         /\ ds'[k].State = ShardStateComplete
         /\ ds'[k].CompleteHash = ds[k].CompleteHash
         /\ ds'[k].CompleteHeight = ds[k].CompleteHeight]_vars


\* the worker ends the load step of its attempt in this step
EndsLoad ==
  /\ wpc = "load"
  /\ wpc' # "load" \/ ~alive'

\* C34: for a renew shard below Stored the worker sends no ShardLoad: it
\* reaches Stored only if the content is in the local store, and otherwise
\* fails with ErrDataMissing, persists the error on the record and submits
\* no MsgComplete.
C34_RenewNeedsLocalContent ==
  [][EndsLoad /\ IsRenew(wtask) =>
       /\ UNCHANGED <<store, completeCount>>
       /\ IF store[wtask.k] # "none"
            THEN /\ wtask'.State = ShardStateStored
                 /\ ds'[wtask.k].State = ShardStateStored
          ELSE /\ alive'
               /\ wpc' = "idle"
               /\ ds'[wtask.k].State < ShardStateStored
               /\ ds'[wtask.k].LastErr = "missing"]_vars


\* a HandleShardAssign request of goroutine p is checked in this step
Assigns(p) == assignResp'[p].call # assignResp[p].call

\* the grounds of rejection the request of p has
RejectedAssign(p) ==
  LET r == assignResp'[p] IN
  \/ r.req.Assignee # Self
  \/ ~r.ans.txErr /\ r.ans.TxCode # 0
  \/ ~r.ans.txErr /\ ~r.ans.bodyOk
  \/ ~r.ans.txErr /\ ~r.ans.orderErr /\ ~r.ans.hasShard

\* C35: a HandleShardAssign request that is rejected (Assignee differs from
\* this node, the transaction has a non-zero result code or an undecodable
\* body, or the order has no shard for this provider) returns a non-zero
\* Code, creates or modifies no shard record or index entry and enqueues
\* nothing; an accepted request for a shard that already has a record does
\* not overwrite the record or add an index entry.
C35_RejectedAssignChangesNothing ==
  [][\A p \in Procs :
       Assigns(p) =>
         /\ RejectedAssign(p) =>
              /\ assignResp'[p].Code # 0
              /\ UNCHANGED <<ds, shardIndex, handlers, pendings>>
         /\ assignResp'[p].Code = 0 /\ Has(ds, assignResp'[p].req.k) =>
              /\ UNCHANGED <<ds, shardIndex>>
              /\ handlers'[p].pc = "blocked"
              /\ handlers'[p].task = ds[assignResp'[p].req.k]]_vars

\* a request with a non-zero transaction code was rejected when a record
\* of the shard existed
C35_Witness ==
  \E p \in Procs :
    /\ assignResp[p].req.Assignee = Self
    /\ ~assignResp[p].ans.txErr
    /\ assignResp[p].ans.TxCode # 0
    /\ assignResp[p].Code = ErrorCodeInvalidTx
    /\ Has(ds, assignResp[p].req.k)
    /\ handlers[p].pc = "idle"


\* C36: a CommitModel call that has staged its content submits one order
\* transaction and no more: MsgStore when orderId is 0, and it goes on with
\* the order id of the result; MsgReady for the given id otherwise, never
\* both; if the transaction fails the call returns the error and has made
\* no SubscribeOrderComplete.
C36_OneOrderTransaction ==
  [][\A c \in Callers :
       commits'[c].op = "commit" =>
         /\ Len(commits'[c].txs) <= 1
         /\ commits'[c].staged /\ commits'[c].pc \notin {"idle", "tx", "panic"}
              => Len(commits'[c].txs) = 1
         /\ commits'[c].txs # <<>> =>
              commits'[c].txs[1] =
                IF commits'[c].orderId = 0 THEN "MsgStore" ELSE "MsgReady"
         /\ commits'[c].subs # <<>> =>
              /\ Len(commits'[c].txs) = 1
              /\ commits'[c].order \in OrderIds
              /\ commits'[c].orderId # 0 =>
                   commits'[c].order = commits'[c].orderId
              /\ commits'[c].subs[1] = <<"Subscribe", commits'[c].order>>
         /\ commits[c].pc = "tx" /\ commits'[c].pc = "done" =>
              /\ commits'[c].result = "error"
              /\ commits'[c].subs = <<>>
              /\ commits'[c].registered = 0]_vars

\* one call without an order id waits for the order of its MsgStore while
\* another, for a given order, has returned the error of its MsgReady
C36_Witness ==
  \E c, d \in Callers :
    /\ commits[c].op = "commit" /\ commits[c].orderId = 0
    /\ commits[c].txs = <<"MsgStore">>
    /\ commits[c].pc = "wait" /\ commits[c].order = MaxOrderId
    /\ commits[d].op = "commit" /\ commits[d].orderId = 1
    /\ commits[d].txs = <<"MsgReady">>
    /\ commits[d].pc = "done" /\ commits[d].result = "error"
    /\ commits[d].subs = <<>>


\* a CommitModel call whose wait ended by the timeout or the cancellation
\* returns in this step
ReturnsAfterTimeout(c) ==
  /\ commits[c].op = "commit"
  /\ commits[c].timeout
  /\ commits[c].pc # "done"
  /\ commits'[c].pc = "done"

ReturnsSubscribed(c) ==
  /\ commits[c].pc # "done"
  /\ commits'[c].pc = "done"
  /\ commits'[c].subs # <<>>

C39_StagedContentUnstaged ==
  [][\A c \in Callers :
       (/\ commits[c].op = "commit"
        /\ commits[c].staged
        /\ commits[c].pc # "done"
        /\ commits'[c].pc = "done") =>
          staging'[commits[c].path] # c]_vars


\* C40: an OrderComplete event is never delivered to the wait channel of a
\* CommitModel after CommitModel has closed it: no subscription sends on
\* a closed channel.
C40_NoSendOnClosedChannel ==
  \A c \in Callers :
    commits[c].op = "commit" => commits[c].result # "panic"

=============================================================================
